---- MODULE Spec2Model ----
(***************************************************************************)
(* Ledger-A: day store, ledger service, undo manager and the day editor    *)
(* that drives them.  The repository holds two implementations of the same *)
(* program, a Go one (internal/ledger, internal/tui) and a TypeScript one  *)
(* (src/services, src/types, src/components).  The variable impl says      *)
(* which one a behaviour runs; where the two differ the definitions branch *)
(* on it.                                                                  *)
(*                                                                         *)
(* Amounts are integers: cad in thousandths of a dollar, idr in tenths of  *)
(* a rupiah, so that the rounding done when a row is written (2 decimals   *)
(* for cad, 0 decimals for idr) is visible.  Descriptions, screen times    *)
(* and journals are drawn from strings without CSV separators.             *)
(***************************************************************************)
EXTENDS Integers, Sequences, FiniteSets, TLC

VARIABLES
    impl,        \* "go" or "ts": the implementation that is running
    now,         \* the clock read by NewEntry / createEntry (one tick per handler)
    disk,        \* the directory of the day: data.csv and entry.md
    dayCache,    \* LedgerService.dayCache (TypeScript only; Go has no cache)
    currentDay,  \* App.currentDay, the Day the editor works on
    stack,       \* UndoStack.actions, oldest first
    faults,      \* I/O failures the environment may still inject
    undone,      \* history: identities of the actions popped by undo()
    lastOp,      \* history: the mutation made by the preceding handler
    lastUndo,    \* history: what the undo() call of the preceding handler did
    conv,        \* the Converter: cache (rate, lastUpdated), offline, lastErr
    cacheFile,   \* .rate_cache.json in the cache directory
    lastRate,    \* history: the converter operation of the preceding step
    search,      \* EditorModel date, searchQuery, the filtered entries and totals
    objects,     \* the Entry objects a caller of the undo manager holds, by reference
    snapshots,   \* history: the values each action on the stack had when recorded
    saves,       \* the saveDay calls in flight (TypeScript), oldest first
    tree,        \* the data directory: what each day directory holds
    dateRange,   \* the DateRange the range view holds
    lastStore    \* history: the Day Store operation of the preceding step

vars == <<impl, now, disk, dayCache, currentDay, stack, faults, undone, lastOp, lastUndo,
          conv, cacheFile, lastRate, search, objects, snapshots, saves,
          tree, dateRange, lastStore>>
rateVars == <<conv, cacheFile, lastRate>>
treeVars == <<tree, dateRange, lastStore>>
\* what the day editor session and the Day Store leave alone
sideVars == <<rateVars, search, objects, snapshots, saves, treeVars>>

(***************************************************************************)
(* Bounds and program constants                                            *)
(***************************************************************************)
MaxTime == 4            \* handlers per behaviour of Spec
MaxFaults == 1          \* injected I/O failures per behaviour
MaxEntries == 2         \* entries the editor lets a day grow to
MaxStackOps == 102      \* handlers per behaviour of SpecStack
MaxStackUndos == 1      \* undo() calls per behaviour of SpecStack
MaxRateTime == 3        \* converter operations per behaviour of SpecRate
MaxCloneOps == 4        \* handlers per behaviour of SpecClone
MaxSaves == 3           \* saves started per behaviour of SpecAsync
MaxTreeOps == 3         \* Day Store operations per behaviour of SpecTree
MaxRangeDays == 2       \* Days an insertion lets a DateRange grow to
MaxSize == 100          \* UndoStack.maxSize / MAX_STACK_SIZE
DefaultCADToIDR == 11800    \* DefaultCADToIDR / DEFAULT_CAD_TO_IDR
Never == 0              \* the zero time, "never updated"

Impls == {"go", "ts"}
ScreenTimes == {"1h", "2h"}
Journals == {"note", ""}
\* What the user types into a row, with the other amount as the converter
\* computes it: CAD 4.50 at rate 11800, and IDR 50000.4 giving CAD 4.237...
Typed ==
    {[desc |-> "Coffee", cad |-> 4500, idr |-> 531000],
     [desc |-> "Groceries", cad |-> 4237, idr |-> 500004]}

(***************************************************************************)
(* Entry                                                                   *)
(***************************************************************************)
\* description[:min(8, len(description))]
Prefix8(desc) == IF desc = "Groceries" THEN "Grocerie" ELSE desc

\* An id is "<clock>-<prefix>"; the clock value is <<tick, subTick>>.
NewEntry(t, k, desc, cad, idr, st) ==
    [id |-> <<t, k, Prefix8(desc)>>, desc |-> desc, cad |-> cad, idr |-> idr, st |-> st]

NoEntry == [id |-> <<0, 0, "">>, desc |-> "", cad |-> 0, idr |-> 0, st |-> ""]

\* no copy: the same object again
CloneShares(e) == e

Clone(e) == [id |-> e.id, desc |-> e.desc, cad |-> e.cad, idr |-> e.idr, st |-> e.st]

Abs(x) == IF x < 0 THEN -x ELSE x
Sign(x) == IF x < 0 THEN -1 ELSE 1

\* fmt.Sprintf("%.2f", cad) / cad.toFixed(2), read back: thousandths -> whole cents
FormatCAD(cad) == Sign(cad) * (((Abs(cad) + 5) \div 10) * 10)

\* fmt.Sprintf("%.0f", idr) / Math.round(idr).toString(), read back: tenths -> units
FormatIDR(idr) == Sign(idr) * (((Abs(idr) + 5) \div 10) * 10)

(***************************************************************************)
(* Day                                                                     *)
(***************************************************************************)
NewDay == [entries |-> <<>>, screenTime |-> "", journal |-> ""]

IsEmpty(day) == Len(day.entries) = 0 /\ day.journal = ""

\* index of the first entry with this id, 0 when there is none
IndexOf(entries, id) ==
    IF \E i \in 1..Len(entries) : entries[i].id = id
    THEN CHOOSE i \in 1..Len(entries) :
            /\ entries[i].id = id
            /\ \A j \in 1..(i-1) : entries[j].id # id
    ELSE 0

RemoveAt(s, i) == SubSeq(s, 1, i-1) \o SubSeq(s, i+1, Len(s))

AddEntry(day, entry) ==
    [day EXCEPT !.entries = Append(@, [entry EXCEPT !.st = day.screenTime])]

\* a removal that takes the last entry when no entry has the id
RemoveEntryOrLast(day, id) ==
    IF IndexOf(day.entries, id) = 0
    THEN [day EXCEPT !.entries = SubSeq(@, 1, Len(@) - 1)]
    ELSE [day EXCEPT !.entries = RemoveAt(@, IndexOf(@, id))]

RemoveEntry(day, id) ==
    LET i == IndexOf(day.entries, id)
    IN  IF i = 0 THEN day ELSE [day EXCEPT !.entries = RemoveAt(@, i)]

UpdateEntry(day, entry) ==
    LET i == IndexOf(day.entries, entry.id)
    IN  IF i = 0 THEN day ELSE [day EXCEPT !.entries[i] = entry]

SetScreenTimeDayOnly(day, screenTime) == [day EXCEPT !.screenTime = screenTime]

SetScreenTimeBlankOnly(day, screenTime) ==
    [day EXCEPT !.screenTime = screenTime,
                !.entries = [i \in 1..Len(@) |->
                                IF @[i].st = "" THEN [@[i] EXCEPT !.st = screenTime] ELSE @[i]]]

SetScreenTime(day, screenTime) ==
    [day EXCEPT !.screenTime = screenTime,
                !.entries = [i \in 1..Len(@) |-> [@[i] EXCEPT !.st = screenTime]]]

(***************************************************************************)
(* Search.  A text is a sequence of characters; dates are [y, m, d].       *)
(***************************************************************************)
UpperCase == <<"A", "B", "C", "D", "E", "F", "G", "H", "I", "J", "K", "L", "M",
               "N", "O", "P", "Q", "R", "S", "T", "U", "V", "W", "X", "Y", "Z">>
LowerCase == <<"a", "b", "c", "d", "e", "f", "g", "h", "i", "j", "k", "l", "m",
               "n", "o", "p", "q", "r", "s", "t", "u", "v", "w", "x", "y", "z">>
DigitChars == <<"0", "1", "2", "3", "4", "5", "6", "7", "8", "9">>
Months ==
    <<<<"J", "a", "n", "u", "a", "r", "y">>, <<"F", "e", "b", "r", "u", "a", "r", "y">>,
      <<"M", "a", "r", "c", "h">>, <<"A", "p", "r", "i", "l">>, <<"M", "a", "y">>,
      <<"J", "u", "n", "e">>, <<"J", "u", "l", "y">>, <<"A", "u", "g", "u", "s", "t">>,
      <<"S", "e", "p", "t", "e", "m", "b", "e", "r">>, <<"O", "c", "t", "o", "b", "e", "r">>,
      <<"N", "o", "v", "e", "m", "b", "e", "r">>, <<"D", "e", "c", "e", "m", "b", "e", "r">>>>

\* the characters of the descriptions the editor's rows carry
Text(desc) ==
    IF desc = "Coffee" THEN <<"C", "o", "f", "f", "e", "e">>
    ELSE IF desc = "Groceries" THEN <<"G", "r", "o", "c", "e", "r", "i", "e", "s">>
    ELSE <<>>

ToLower(text) ==
    [i \in 1..Len(text) |->
        IF \E k \in 1..26 : UpperCase[k] = text[i]
        THEN LowerCase[CHOOSE k \in 1..26 : UpperCase[k] = text[i]]
        ELSE text[i]]

\* strings.Contains / String.includes
Contains(text, sub) ==
    \E i \in 0..(Len(text) - Len(sub)) : SubSeq(text, i + 1, i + Len(sub)) = sub

RECURSIVE Digits(_)
Digits(n) ==
    IF n < 10 THEN <<DigitChars[n + 1]>>
    ELSE Append(Digits(n \div 10), DigitChars[(n % 10) + 1])

Pad2(n) == IF n < 10 THEN <<"0">> \o Digits(n) ELSE Digits(n)

\* "%.2f" / toFixed(2) of an amount in thousandths
CadText(cad) ==
    (IF cad < 0 THEN <<"-">> ELSE <<>>)
        \o Digits(Abs(FormatCAD(cad)) \div 1000) \o <<".">>
        \o Pad2((Abs(FormatCAD(cad)) % 1000) \div 10)

\* "%.0f" / Math.round(..).toString() of an amount in tenths
IdrText(idr) ==
    (IF idr < 0 THEN <<"-">> ELSE <<>>) \o Digits(Abs(FormatIDR(idr)) \div 10)

\* "01/02/2006", "1/2/2006", "January 2, 2006", "Jan 2"
DateTexts(date) ==
    <<Pad2(date.m) \o <<"/">> \o Pad2(date.d) \o <<"/">> \o Digits(date.y),
      Digits(date.m) \o <<"/">> \o Digits(date.d) \o <<"/">> \o Digits(date.y),
      Months[date.m] \o <<" ">> \o Digits(date.d) \o <<",", " ">> \o Digits(date.y),
      SubSeq(Months[date.m], 1, 3) \o <<" ">> \o Digits(date.d)>>

\* a match that compares the query as typed
EntryMatchesQueryExact(im, entry, date, query) ==
    \/ query = <<>>
    \/ Contains(Text(entry.desc), query)
    \/ \E k \in 1..4 : Contains(DateTexts(date)[k], query)
    \/ Contains(CadText(entry.cad), query)
    \/ Contains(IdrText(entry.idr), query)

\* EntryMatchesQuery / entryMatchesQuery.  Go lowers the query, the
\* description and the two date texts with a month name; TypeScript lowers
\* all four date texts.
EntryMatchesQuery(im, entry, date, query) ==
    \/ query = <<>>
    \/ Contains(ToLower(Text(entry.desc)), ToLower(query))
    \/ \E k \in 1..4 :
          Contains(IF im = "ts" \/ k > 2 THEN ToLower(DateTexts(date)[k])
                   ELSE DateTexts(date)[k], ToLower(query))
    \/ Contains(CadText(entry.cad), ToLower(query))
    \/ Contains(IdrText(entry.idr), ToLower(query))

\* Day.Filter / filterEntries, from entry i on
RECURSIVE FilterFrom(_, _, _, _, _)
FilterFrom(im, entries, date, query, i) ==
    IF i > Len(entries) THEN <<>>
    ELSE (IF EntryMatchesQuery(im, entries[i], date, query) THEN <<entries[i]>> ELSE <<>>)
            \o FilterFrom(im, entries, date, query, i + 1)

Filter(im, day, date, query) ==
    IF query = <<>> THEN day.entries ELSE FilterFrom(im, day.entries, date, query, 1)

RECURSIVE SumCAD(_)
SumCAD(entries) ==
    IF entries = <<>> THEN 0 ELSE entries[1].cad + SumCAD(Tail(entries))

RECURSIVE SumIDR(_)
SumIDR(entries) ==
    IF entries = <<>> THEN 0 ELSE entries[1].idr + SumIDR(Tail(entries))

FilteredTotalCAD(im, day, date, query) == SumCAD(Filter(im, day, date, query))
FilteredTotalIDR(im, day, date, query) == SumIDR(Filter(im, day, date, query))

NoSearch ==
    [date |-> [y |-> 2024, m |-> 1, d |-> 5], query |-> <<>>, ran |-> FALSE,
     entries |-> <<>>, totalCAD |-> 0, totalIDR |-> 0]

(***************************************************************************)
(* Day Store (CSVManager).  The editor works on one calendar date, so the  *)
(* disk is the directory of that date: dir says whether the directory      *)
(* exists, hasCsv/rows are data.csv (rows without the header), and         *)
(* hasJournal/journal are entry.md.                                        *)
(***************************************************************************)
NoFiles == [dir |-> FALSE, hasCsv |-> FALSE, rows |-> <<>>, hasJournal |-> FALSE, journal |-> ""]

\* A row of data.csv.  form tells how the line parses: "ok", "short" (fewer
\* than 5 fields), "date" (the date field does not parse) or "cad" (the cad
\* field is not a number); SaveDay writes rows that parse.
Row(entry, day) ==
    [desc |-> entry.desc, cad |-> FormatCAD(entry.cad), idr |-> FormatIDR(entry.idr),
     st |-> day.screenTime, form |-> "ok"]

\* The text of a row's last field up to its first comma.
FirstField(st) == IF st = "1h,30m" THEN "1h" ELSE st

\* record[4] of a row as the reader sees it.  Go writes and reads the row with
\* encoding/csv, which quotes a field that holds a comma; TypeScript joins
\* day.screenTime into the line unquoted and parseCSVLine ends a field at
\* every comma outside quotes.
ReadScreenTime(im, st) == IF im = "ts" THEN FirstField(st) ELSE st

\* The row loop of LoadDay from row i on; k is the sub-tick the clock shows
\* for row i (fine: the clock advances between rows; otherwise they all read
\* the same value).
RECURSIVE LoadRows(_, _, _, _, _, _)
LoadRows(im, rows, i, day, t, fine) ==
    IF i > Len(rows) THEN day
    ELSE LET r == rows[i]
             screenTime == ReadScreenTime(im, r.st)
             cad == IF r.form = "cad" THEN 0 ELSE r.cad
             entry == NewEntry(t, IF fine THEN i ELSE 0, r.desc, cad, r.idr, screenTime)
             added == IF im = "go" THEN AddEntry(day, entry)
                      ELSE [day EXCEPT !.entries = Append(@, entry)]
             next == IF added.screenTime = "" /\ screenTime # ""
                     THEN SetScreenTime(added, screenTime)
                     ELSE added
         IN  LoadRows(im, rows, i + 1,
                      IF r.form \in {"short", "date"} THEN day ELSE next, t, fine)

\* LoadDay with no I/O error: absent files are no data
LoadDay(im, dsk, t, fine) ==
    LET day == IF dsk.hasCsv THEN LoadRows(im, dsk.rows, 1, NewDay, t, fine) ELSE NewDay
    IN  [day EXCEPT !.journal = IF dsk.hasJournal THEN dsk.journal ELSE ""]

LoadFaults == {"none", "csv", "journal"}

\* csv.Reader.ReadAll with FieldsPerRecord 0: every record must have as many
\* fields as the first one (the 5-field header), else the read fails.
\* parseCSVLine has no such rule.
ReadAllFails(im, rows) ==
    im = "go" /\ \E i \in 1..Len(rows) : rows[i].form = "short"

\* CSVManager.LoadDay / loadDay with its error returns.  fault names the
\* read that fails with an error other than not-found ("csv": data.csv,
\* "journal": entry.md); a file that is absent is never read.
TryLoadDaySwallows(im, dsk, t, fine, fault) ==
    IF (dsk.hasCsv /\ (fault = "csv" \/ ReadAllFails(im, dsk.rows)))
          \/ (dsk.hasJournal /\ fault = "journal")
    THEN [ok |-> TRUE, day |-> NewDay]
    ELSE [ok |-> TRUE, day |-> LoadDay(im, dsk, t, fine)]

TryLoadDay(im, dsk, t, fine, fault) ==
    IF dsk.hasCsv /\ (fault = "csv" \/ ReadAllFails(im, dsk.rows))
    THEN [ok |-> FALSE, day |-> NewDay]
    ELSE IF dsk.hasJournal /\ fault = "journal"
    THEN [ok |-> FALSE, day |-> NewDay]
    ELSE [ok |-> TRUE, day |-> LoadDay(im, dsk, t, fine)]

SaveFaults == {"none", "csv", "journal"}

\* CSVManager.SaveDay; fault names the write that fails ("csv": data.csv
\* cannot be created, "journal": entry.md cannot be written).
CsvSaveDayHeaderOnly(dsk, day, fault) ==
    [ok |-> TRUE,
     disk |-> [dsk EXCEPT !.dir = TRUE, !.hasCsv = TRUE,
                  !.rows = [i \in 1..Len(day.entries) |-> Row(day.entries[i], day)]]]

\* a save that writes its rows after those data.csv holds
CsvSaveDayAppends(dsk, day, fault) ==
    [ok |-> TRUE,
     disk |-> [dsk EXCEPT
                  !.dir = TRUE,
                  !.hasCsv = @ \/ Len(day.entries) > 0,
                  !.rows = @ \o [i \in 1..Len(day.entries) |-> Row(day.entries[i], day)],
                  !.hasJournal = @ \/ day.journal # "",
                  !.journal = IF day.journal # "" THEN day.journal ELSE @]]

CsvSaveDay(dsk, day, fault) ==
    LET withDir == [dsk EXCEPT !.dir = TRUE]
        withCsv == IF Len(day.entries) > 0
                   THEN [withDir EXCEPT !.hasCsv = TRUE,
                            !.rows = [i \in 1..Len(day.entries) |-> Row(day.entries[i], day)]]
                   ELSE withDir
        withJournal == IF day.journal # ""
                       THEN [withCsv EXCEPT !.hasJournal = TRUE, !.journal = day.journal]
                       ELSE withCsv
    IN  IF fault = "csv" /\ Len(day.entries) > 0 THEN [ok |-> FALSE, disk |-> withDir]
        ELSE IF fault = "journal" /\ day.journal # "" THEN [ok |-> FALSE, disk |-> withCsv]
        ELSE [ok |-> TRUE, disk |-> withJournal]

\* a fault can only hit a write that is attempted
FaultApplies(day, fault) ==
    \/ fault = "none"
    \/ fault = "csv" /\ Len(day.entries) > 0
    \/ fault = "journal" /\ day.journal # ""

(***************************************************************************)
(* Ledger Service                                                          *)
(***************************************************************************)
NoCache == [present |-> FALSE, day |-> NewDay]

\* Service.GetDay / LedgerService.getDay.  Result: ok, the Day, the cache
\* afterwards, whether the Day is the cached instance, and the number of
\* Day Store loads.
GetDay(im, cache, dsk, t, fine, loadFail) ==
    IF im = "ts" /\ cache.present
    THEN [ok |-> TRUE, day |-> cache.day, cache |-> cache, cached |-> TRUE, loads |-> 0]
    ELSE IF loadFail
    THEN [ok |-> FALSE, day |-> NewDay, cache |-> cache, cached |-> FALSE, loads |-> 1]
    ELSE LET day == LoadDay(im, dsk, t, fine)
         IN  [ok |-> TRUE, day |-> day,
              cache |-> IF im = "ts" THEN [present |-> TRUE, day |-> day] ELSE cache,
              cached |-> im = "ts", loads |-> 1]

\* Service.SaveDay / LedgerService.saveDay.  Result: ok, the disk and the
\* cache afterwards, and the number of Day Store saves.
SaveDay(im, cache, dsk, day, fault) ==
    IF im = "go"
    THEN IF IsEmpty(day)
         THEN [ok |-> TRUE, disk |-> dsk, cache |-> cache, saves |-> 0]
         ELSE LET r == CsvSaveDay(dsk, day, fault)
              IN  [ok |-> r.ok, disk |-> r.disk, cache |-> cache, saves |-> 1]
    ELSE LET r == CsvSaveDay(dsk, day, fault)
         IN  [ok |-> r.ok, disk |-> r.disk, cache |-> [present |-> TRUE, day |-> day],
              saves |-> 1]

\* Service.RemoveEntry / LedgerService.removeEntryFromDay on the Day the
\* caller holds.  When the save fails Go puts the removed entry back with
\* Day.AddEntry; TypeScript lets the error pass with the entry removed.
ServiceRemoveEntry(im, day, id, dsk, fault) ==
    IF IndexOf(day.entries, id) = 0
    THEN [ok |-> TRUE, removed |-> FALSE, day |-> day, disk |-> dsk]
    ELSE IF CsvSaveDay(dsk, RemoveEntry(day, id), fault).ok
    THEN [ok |-> TRUE, removed |-> TRUE, day |-> RemoveEntry(day, id),
          disk |-> CsvSaveDay(dsk, RemoveEntry(day, id), fault).disk]
    ELSE [ok |-> FALSE, removed |-> FALSE,
          day |-> IF im = "go"
                  THEN AddEntry(RemoveEntry(day, id), day.entries[IndexOf(day.entries, id)])
                  ELSE RemoveEntry(day, id),
          disk |-> CsvSaveDay(dsk, RemoveEntry(day, id), fault).disk]

\* Service.UpdateEntry / LedgerService.updateEntryInDay on the Day the caller
\* holds: the entry takes the place of the one with its id, as it is, and the
\* Day is saved; nothing is saved when no entry has the id.
ServiceUpdateEntry(im, day, entry, dsk, fault) ==
    IF IndexOf(day.entries, entry.id) = 0
    THEN [ok |-> TRUE, updated |-> FALSE, day |-> day, disk |-> dsk]
    ELSE [ok |-> CsvSaveDay(dsk, UpdateEntry(day, entry), fault).ok, updated |-> TRUE,
          day |-> UpdateEntry(day, entry),
          disk |-> CsvSaveDay(dsk, UpdateEntry(day, entry), fault).disk]

(***************************************************************************)
(* Undo stack.  An action carries the fields of UndoAction; seq is the     *)
(* identity of the recorded action object (the clock tick of the handler   *)
(* that recorded it), which the code has as the object's reference.        *)
(***************************************************************************)
ActionTypes(im) ==
    IF im = "go" THEN {"AddEntry", "DeleteEntry", "EditEntry", "SetScreenTime"}
    ELSE {"AddEntry", "DeleteEntry", "EditEntry", "SetScreenTime", "SetJournal"}

NoAction ==
    [type |-> "none", entry |-> NoEntry, oldEntry |-> NoEntry, screenTime |-> "",
     oldScreenTime |-> "", journal |-> "", oldJournal |-> "", seq |-> 0]

PushDropNewest(stk, action) ==
    IF Len(stk) >= MaxSize THEN stk ELSE Append(stk, action)

Push(stk, action) ==
    LET a == Append(stk, action)
    IN  IF Len(a) > MaxSize THEN Tail(a) ELSE a

Peek(stk) == IF Len(stk) = 0 THEN NoAction ELSE stk[Len(stk)]

PopKeepsTop(stk) == stk

Pop(stk) == IF Len(stk) = 0 THEN stk ELSE SubSeq(stk, 1, Len(stk) - 1)

PushAddEntry(stk, entry, seq) ==
    Push(stk, [NoAction EXCEPT !.type = "AddEntry", !.entry = Clone(entry), !.seq = seq])

PushDeleteEntry(stk, entry, seq) ==
    Push(stk, [NoAction EXCEPT !.type = "DeleteEntry", !.entry = Clone(entry), !.seq = seq])

PushEditEntry(stk, oldEntry, newEntry, seq) ==
    Push(stk, [NoAction EXCEPT !.type = "EditEntry", !.entry = Clone(newEntry),
                               !.oldEntry = Clone(oldEntry), !.seq = seq])

PushSetScreenTime(stk, oldScreenTime, newScreenTime, seq) ==
    Push(stk, [NoAction EXCEPT !.type = "SetScreenTime", !.screenTime = newScreenTime,
                               !.oldScreenTime = oldScreenTime, !.seq = seq])

PushSetJournal(stk, oldJournal, newJournal, seq) ==
    Push(stk, [NoAction EXCEPT !.type = "SetJournal", !.journal = newJournal,
                               !.oldJournal = oldJournal, !.seq = seq])

CanUndoOffByOne(stk) == Len(stk) > 1

CanUndo(stk) == Len(stk) # 0

(***************************************************************************)
(* Undo manager                                                            *)
(***************************************************************************)
\* The switch of Undo(): the inverse of the action applied to the Day.
ApplyInverse(im, action, day) ==
    CASE action.type = "AddEntry" -> RemoveEntry(day, action.entry.id)
      [] action.type = "DeleteEntry" ->
            IF im = "go" THEN AddEntry(day, action.entry)
            ELSE [day EXCEPT !.entries = Append(@, action.entry)]
      [] action.type = "EditEntry" -> UpdateEntry(day, action.oldEntry)
      [] action.type = "SetScreenTime" -> SetScreenTime(day, action.oldScreenTime)
      [] action.type = "SetJournal" /\ im = "ts" -> [day EXCEPT !.journal = action.oldJournal]
      [] OTHER -> day

\* The stack a failed undo() leaves: the popped action is not put back.
StackRestoredAfterError(popped, action) == Append(popped, action)

StackAfterError(popped, action) == popped

\* truncate(s, maxLen)
truncate(text, maxLen) ==
    IF Len(text) <= maxLen THEN text
    ELSE SubSeq(text, 1, maxLen - 3) \o <<".", ".", ".">>

\* what undo() returns when it has nothing to say: "" / null
NoDescription == <<>>

\* The description a successful Undo() returns: the words, and the quoted
\* text after them.
Description(im, action) ==
    CASE action.type = "AddEntry" ->
            <<"Undo: Removed", truncate(Text(action.entry.desc), 20)>>
      [] action.type = "DeleteEntry" ->
            <<"Undo: Restored", truncate(Text(action.entry.desc), 20)>>
      [] action.type = "EditEntry" ->
            <<"Undo: Reverted", truncate(Text(action.oldEntry.desc), 20)>>
      [] action.type = "SetScreenTime" ->
            <<"Undo: Restored screen time to", action.oldScreenTime>>
      [] action.type = "SetJournal" /\ im = "ts" -> <<"Undo: Restored journal">>
      [] OTHER -> NoDescription

\* UndoManager.Undo / undo.  res: "nothing" (empty stack), "ok", "error";
\* got is the Day GetDay returned and day is that Day with the inverse applied;
\* desc is the description returned.
Undo(im, stk, cache, dsk, t, fine, loadFail, fault) ==
    IF Len(stk) = 0
    THEN [res |-> "nothing", stack |-> stk, cache |-> cache, disk |-> dsk,
          action |-> NoAction, got |-> NewDay, day |-> NewDay, loads |-> 0, saves |-> 0,
          desc |-> NoDescription]
    ELSE LET Saved(action, popped, g, day, s) ==
                 [res |-> IF s.ok THEN "ok" ELSE "error",
                  stack |-> IF s.ok THEN popped ELSE StackAfterError(popped, action),
                  cache |-> s.cache, disk |-> s.disk, action |-> action, got |-> g.day,
                  day |-> day, loads |-> g.loads, saves |-> s.saves,
                  desc |-> IF s.ok THEN Description(im, action) ELSE NoDescription]
             \* the TypeScript inverse mutates the cached instance in place
             Inverted(action, popped, g, day) ==
                 Saved(action, popped, g, day,
                       SaveDay(im, IF im = "ts" THEN [present |-> TRUE, day |-> day]
                                   ELSE g.cache,
                               dsk, day, fault))
             Loaded(action, popped, g) ==
                 IF ~g.ok
                 THEN [res |-> "error", stack |-> StackAfterError(popped, action),
                       cache |-> g.cache, disk |-> dsk, action |-> action, got |-> NewDay,
                       day |-> NewDay, loads |-> g.loads, saves |-> 0,
                       desc |-> NoDescription]
                 ELSE Inverted(action, popped, g, ApplyInverse(im, action, g.day))
         IN  Loaded(Peek(stk), Pop(stk), GetDay(im, cache, dsk, t, fine, loadFail))

(***************************************************************************)
(* Currency Converter.  Amounts and rates are exact: a rate is an integer  *)
(* number of rupiah per dollar, a converted amount is the fraction         *)
(* num/den (den = 0 is the infinity or NaN that a floating-point division  *)
(* by zero gives); the rounding of float64 is left out.  A value that is   *)
(* no number (undefined in TypeScript, and the NaN it turns into in        *)
(* arithmetic) has def = FALSE.                                            *)
(***************************************************************************)
Undefined == [def |-> FALSE, val |-> 0]
Number(v) == [def |-> TRUE, val |-> v]
NotANumber == [def |-> FALSE, num |-> 0, den |-> 1]
Ratio(n, d) == [def |-> TRUE, num |-> n, den |-> d]

\* RateCache; Never is time.Time{} in Go and the empty last_updated in TS
DefaultCache == [rate |-> Number(DefaultCADToIDR), lastUpdated |-> Never]

\* .rate_cache.json: absent, present but not readable, no JSON, or JSON
MissingFile == [form |-> "missing", rate |-> Undefined, lastUpdated |-> Never]
CacheFileOf(cache) == [form |-> "json", rate |-> cache.rate, lastUpdated |-> cache.lastUpdated]

\* a loadCache that lets the read error out
LoadCacheRaises(im, file) ==
    IF file.form = "unreadable" THEN [raised |-> TRUE, cache |-> DefaultCache]
    ELSE IF file.form \in {"missing", "garbage"} THEN [raised |-> FALSE, cache |-> DefaultCache]
    ELSE [raised |-> FALSE,
          cache |-> [rate |-> IF im = "go" /\ ~file.rate.def THEN Number(0) ELSE file.rate,
                     lastUpdated |-> file.lastUpdated]]

\* loadCache / loadCacheSync.  A key that the JSON lacks is the zero value
\* in Go and undefined in TypeScript.
loadCache(im, file) ==
    IF file.form \in {"missing", "unreadable", "garbage"}
    THEN [raised |-> FALSE, cache |-> DefaultCache]
    ELSE [raised |-> FALSE,
          cache |-> [rate |-> IF im = "go" /\ ~file.rate.def THEN Number(0) ELSE file.rate,
                     lastUpdated |-> file.lastUpdated]]

NoConverter == [built |-> FALSE, cache |-> DefaultCache, offline |-> FALSE, lastErr |-> "none"]

NewConverter(im, file) ==
    [raised |-> loadCache(im, file).raised,
     conv |-> [built |-> TRUE, cache |-> loadCache(im, file).cache,
               offline |-> FALSE, lastErr |-> "none"]]

\* What the rate service answers: no answer at all, a status other than 200,
\* a body that is no JSON, JSON without "rates", "rates" without IDR, or a rate
ResponseKinds == {"transport", "status", "decode", "noRates", "noIDR", "rate"}

\* Client.FetchRate / fetchCADToIDR.  Go looks the rate up with `rate, ok :=`
\* and fails when it is not there; TypeScript returns data.rates.IDR as it is.
FetchRate(im, resp) ==
    IF resp.kind = "rate" THEN [err |-> "none", rate |-> Number(resp.rate)]
    ELSE IF im = "ts" /\ resp.kind = "noIDR" THEN [err |-> "none", rate |-> Undefined]
    ELSE [err |-> resp.kind, rate |-> Number(0)]

\* Converter.RefreshRate / refreshRate at time t.  In TypeScript saveCache
\* runs inside the try block, so a failed write ends in the catch block too.
RefreshRate(im, c, file, resp, t, writeOk) ==
    IF FetchRate(im, resp).err # "none"
    THEN [conv |-> [c EXCEPT !.offline = TRUE, !.lastErr = FetchRate(im, resp).err],
          file |-> file, err |-> FetchRate(im, resp).err]
    ELSE IF writeOk
    THEN [conv |-> [c EXCEPT !.cache = [rate |-> FetchRate(im, resp).rate, lastUpdated |-> t],
                             !.offline = FALSE, !.lastErr = "none"],
          file |-> CacheFileOf([rate |-> FetchRate(im, resp).rate, lastUpdated |-> t]),
          err |-> "none"]
    ELSE [conv |-> [c EXCEPT !.cache = [rate |-> FetchRate(im, resp).rate, lastUpdated |-> t],
                             !.offline = (im = "ts"),
                             !.lastErr = IF im = "ts" THEN "write" ELSE "none"],
          file |-> file, err |-> "write"]

CADToIDR(c, cad) ==
    IF c.cache.rate.def THEN Ratio(cad * c.cache.rate.val, 1) ELSE NotANumber

\* the division without the test for a zero rate
IDRToCADUnguarded(c, idr) ==
    IF c.cache.rate.def THEN Ratio(idr, c.cache.rate.val) ELSE NotANumber

IDRToCAD(c, idr) ==
    IF c.cache.rate.def /\ c.cache.rate.val = 0 THEN Ratio(0, 1)
    ELSE IF c.cache.rate.def THEN Ratio(idr, c.cache.rate.val)
    ELSE NotANumber

\* GetLastUpdatedString: the words of the text, and the date it formats
GetLastUpdatedString(c) ==
    IF c.cache.lastUpdated = Never
    THEN [words |-> {"never", "using", "default", "rate"}, date |-> Never]
    ELSE [words |-> {"at"}, date |-> c.cache.lastUpdated]

\* GetStatusMessage / getStatusMessage: the words of the template chosen,
\* and the rate and the date that are formatted into it
GetStatusMessage(c) ==
    IF c.offline /\ c.cache.lastUpdated = Never
    THEN [words |-> {"Offline", "using", "default", "rate", "CAD", "IDR"},
          rate |-> c.cache.rate, date |-> Never]
    ELSE IF c.offline
    THEN [words |-> {"Offline", "using", "cached", "rate", "from"},
          rate |-> Undefined, date |-> c.cache.lastUpdated]
    ELSE [words |-> {"Rate", "CAD", "IDR", "updated"},
          rate |-> c.cache.rate, date |-> c.cache.lastUpdated]

\* history record of a converter operation; found is the form of the cache
\* file at construction, fresh says that a rate lookup has succeeded since
NoRateOp ==
    [op |-> "none", pre |-> NoConverter, resp |-> [kind |-> "transport", rate |-> 0],
     at |-> 0, raised |-> FALSE, err |-> "none", x |-> 0, res |-> NotANumber,
     found |-> "none", fresh |-> FALSE]

(***************************************************************************)
(* The data directory.  A calendar date is [y, m, d]: the menu and the     *)
(* date picker hand the Day Store dates at midnight.  tree maps the path   *)
(* year/month/day of a day directory to what the directory holds (the      *)
(* record of the Day Store section; dir = FALSE: no such directory).       *)
(***************************************************************************)
DaysIn(y, m) ==
    IF m = 2 THEN (IF y % 4 = 0 /\ (y % 100 # 0 \/ y % 400 = 0) THEN 29 ELSE 28)
    ELSE IF m \in {4, 6, 9, 11} THEN 30 ELSE 31

\* Time.AddDate(0, 0, 1) / addDays(date, 1)
NextDate(date) ==
    IF date.d < DaysIn(date.y, date.m) THEN [date EXCEPT !.d = @ + 1]
    ELSE IF date.m < 12 THEN [y |-> date.y, m |-> date.m + 1, d |-> 1]
    ELSE [y |-> date.y + 1, m |-> 1, d |-> 1]

\* Time.Before / a.getTime() < b.getTime()
Before(a, b) ==
    \/ a.y < b.y
    \/ a.y = b.y /\ a.m < b.m
    \/ a.y = b.y /\ a.m = b.m /\ a.d < b.d

\* the names of the year, month and day directories of a date
GetDayDir(date) == <<Digits(date.y), Pad2(date.m), Pad2(date.d)>>

\* the value of a decimal digit, -1 for any other character
DigitValue(c) ==
    IF \E k \in 1..10 : DigitChars[k] = c
    THEN (CHOOSE k \in 1..10 : DigitChars[k] = c) - 1
    ELSE -1

IsDigits(text, n) == Len(text) = n /\ \A i \in 1..n : DigitValue(text[i]) >= 0

RECURSIVE Atoi(_)
Atoi(text) ==
    IF text = <<>> THEN 0
    ELSE 10 * Atoi(SubSeq(text, 1, Len(text) - 1)) + DigitValue(text[Len(text)])

\* time.Parse(DateFormat, year-month-day) / parseISODate of the names of a
\* day directory.  Go refuses a month or a day out of range; the Date
\* constructor of TypeScript is given the numbers as they are (the paths of
\* the tree are those GetDayDir builds, which it does not roll over).
ParseDir(im, path) ==
    IF ~(IsDigits(path[1], 4) /\ IsDigits(path[2], 2) /\ IsDigits(path[3], 2))
    THEN [ok |-> FALSE, date |-> [y |-> 0, m |-> 0, d |-> 0]]
    ELSE [ok |-> im = "ts" \/ (/\ Atoi(path[2]) \in 1..12
                               /\ Atoi(path[3]) \in 1..DaysIn(Atoi(path[1]), Atoi(path[2]))),
          date |-> [y |-> Atoi(path[1]), m |-> Atoi(path[2]), d |-> Atoi(path[3])]]

FileExists(tr, date) == tr[GetDayDir(date)].hasCsv
JournalExists(tr, date) == tr[GetDayDir(date)].hasJournal

\* a date is listed when its directory exists
DayHasDirectory(tr, date) == tr[GetDayDir(date)].dir

DayHasData(tr, date) == FileExists(tr, date) \/ JournalExists(tr, date)

\* a save that leaves on disk exactly what the Day holds
TreeSaveExact(tr, date, day) ==
    [tr EXCEPT ![GetDayDir(date)] =
        [dir |-> TRUE, hasCsv |-> Len(day.entries) > 0,
         rows |-> [i \in 1..Len(day.entries) |-> Row(day.entries[i], day)],
         hasJournal |-> day.journal # "", journal |-> day.journal]]

\* CSVManager.SaveDay at the directory of the Day's date
TreeSave(tr, date, day) ==
    [tr EXCEPT ![GetDayDir(date)] = CsvSaveDay(@, day, "none").disk]

\* os.Remove / unlink of data.csv; a file that is not there is no error
DeleteDay(tr, date) ==
    [tr EXCEPT ![GetDayDir(date)].hasCsv = FALSE, ![GetDayDir(date)].rows = <<>>]

\* os.Remove / unlink of entry.md
DeleteJournal(tr, date) ==
    [tr EXCEPT ![GetDayDir(date)].hasJournal = FALSE, ![GetDayDir(date)].journal = ""]

\* A Day of a DateRange is [date, day].
NoRange ==
    [start |-> [y |-> 0, m |-> 0, d |-> 0], end |-> [y |-> 0, m |-> 0, d |-> 0],
     days |-> <<>>]

NewDateRange(start, end) == [start |-> start, end |-> end, days |-> <<>>]

\* sort.Slice with Before / Array.sort by getTime, as an insertion sort
RECURSIVE InsertDay(_, _)
InsertDay(days, day) ==
    IF days = <<>> THEN <<day>>
    ELSE IF Before(day.date, days[1].date) THEN <<day>> \o days
    ELSE <<days[1]>> \o InsertDay(Tail(days), day)

RECURSIVE SortDays(_)
SortDays(days) ==
    IF days = <<>> THEN <<>>
    ELSE InsertDay(SortDays(SubSeq(days, 1, Len(days) - 1)), days[Len(days)])

\* an insertion at the end
AddDayAppends(dr, day) == [dr EXCEPT !.days = Append(@, day)]

\* DateRange.AddDay / addDay
AddDay(dr, day) == [dr EXCEPT !.days = SortDays(Append(@, day))]

\* The loop of LoadDateRange from current on; t is the clock the loaded
\* entries are stamped with.  A load that fails ends the call with the error.
RECURSIVE LoadRangeFrom(_, _, _, _, _, _)
LoadRangeFrom(im, tr, current, end, dr, t) ==
    IF Before(end, current) THEN [ok |-> TRUE, range |-> dr]
    ELSE IF ~FileExists(tr, current)
    THEN LoadRangeFrom(im, tr, NextDate(current), end, dr, t)
    ELSE IF ~TryLoadDay(im, tr[GetDayDir(current)], t, FALSE, "none").ok
    THEN [ok |-> FALSE, range |-> NoRange]
    ELSE LoadRangeFrom(im, tr, NextDate(current), end,
            IF IsEmpty(TryLoadDay(im, tr[GetDayDir(current)], t, FALSE, "none").day)
            THEN dr
            ELSE AddDay(dr, [date |-> current,
                             day |-> TryLoadDay(im, tr[GetDayDir(current)], t, FALSE,
                                                "none").day]),
            t)

LoadDateRange(im, tr, start, end, t) ==
    LoadRangeFrom(im, tr, start, end, NewDateRange(start, end), t)

RECURSIVE Ascending(_)
Ascending(dates) ==
    IF dates = {} THEN <<>>
    ELSE <<CHOOSE a \in dates : \A b \in dates : ~Before(b, a)>>
            \o Ascending(dates \ {CHOOSE a \in dates : \A b \in dates : ~Before(b, a)})

\* a listing of every day directory
ListDirectories(im, tr) ==
    Ascending({ParseDir(im, p).date : p \in {q \in DOMAIN tr : tr[q].dir /\ ParseDir(im, q).ok}})

\* ListAvailableDates / listAvailableDates: the day directories are walked in
\* the order of their names (Go) or the dates are sorted at the end
\* (TypeScript); a date is listed when DayHasData says so.
ListAvailableDates(im, tr) ==
    Ascending({d \in {ParseDir(im, p).date :
                         p \in {q \in DOMAIN tr : tr[q].dir /\ ParseDir(im, q).ok}} :
                  DayHasData(tr, d)})

\* the calendar days the behaviours work on: 30 and 31 January and
\* 1 February 2024, across the end of the month
RECURSIVE DateAt(_)
DateAt(k) == IF k = 1 THEN [y |-> 2024, m |-> 1, d |-> 30] ELSE NextDate(DateAt(k - 1))
TreeDates == {DateAt(1), DateAt(2), DateAt(3)}

\* no day directory yet
NoTree == [p \in {GetDayDir(d) : d \in TreeDates} |-> NoFiles]

NoStoreOp ==
    [op |-> "none", date |-> [y |-> 0, m |-> 0, d |-> 0],
     end |-> [y |-> 0, m |-> 0, d |-> 0], day |-> NewDay, ok |-> TRUE, listed |-> <<>>]

(***************************************************************************)
(* The application: the menu and the day editor.  An action is one          *)
(* committed user operation with the save or reload the App does for it    *)
(* (the keystrokes of an inline edit run with no other handler between     *)
(* them, so they are taken as one step).                                   *)
(***************************************************************************)
\* got: the Day the editor holds is one that GetDay returned
Closed == [open |-> FALSE, shared |-> FALSE, day |-> NewDay, got |-> FALSE]

\* the Day object the editor holds: the cached instance, or its own
CurDay == IF currentDay.shared THEN dayCache.day ELSE currentDay.day

\* lastOp: what the last handler did.  kept: data.csv and entry.md are as they
\* were before it; fault: the read error it met; had: the rows data.csv held
\* before a Day Store save.
NoOp ==
    [op |-> "none", seq |-> 0, e |-> NoEntry, old |-> NoEntry, s |-> "", oldS |-> "",
     pre |-> NewDay, saved |-> FALSE, kept |-> TRUE, fault |-> "none", had |-> 0]

NoUndo ==
    [res |-> "none", action |-> NoAction, got |-> NewDay, day |-> NewDay, size |-> 0,
     loads |-> 0, saves |-> 0, failed |-> FALSE, desc |-> NoDescription]

\* data.csv and entry.md of the date
FilesOf(dsk) ==
    [hasCsv |-> dsk.hasCsv, rows |-> dsk.rows, hasJournal |-> dsk.hasJournal,
     journal |-> dsk.journal]

\* a disk as an earlier session left it
SavedDisk(day) == CsvSaveDay(NoFiles, day, "none").disk

TwoCoffees ==
    LET e == NewEntry(0, 0, "Coffee", 4500, 531000, "1h")
    IN  [entries |-> <<e, e>>, screenTime |-> "1h", journal |-> ""]

InitDisks == {NoFiles, SavedDisk(TwoCoffees)}

CanFault(fault) == fault = "none" \/ faults > 0
Spend(failed) == IF failed THEN faults - 1 ELSE faults

\* loadDayEditor: the menu opens the editor on the day
OpenDay(fine, loadFail) ==
    /\ ~currentDay.open
    /\ loadFail => faults > 0
    /\ \E g \in {GetDay(impl, dayCache, disk, now, fine, loadFail)} :
           /\ loadFail => g.loads > 0
           /\ fine => (g.ok /\ g.loads > 0 /\ Len(disk.rows) > 1)
           /\ dayCache' = g.cache
           /\ currentDay' = IF g.ok /\ g.cached
                            THEN [open |-> TRUE, shared |-> TRUE, day |-> NewDay, got |-> TRUE]
                            ELSE [open |-> TRUE, shared |-> FALSE, day |-> g.day,
                                  got |-> g.ok]
           /\ faults' = Spend(~g.ok)
    /\ now' = now + 1
    /\ lastOp' = NoOp
    /\ lastUndo' = NoUndo
    /\ UNCHANGED <<impl, disk, stack, undone>>

\* EditorActionSaved: the App saves currentDay and ignores a failure
Commit(day, stk, fault, op) ==
    /\ CanFault(fault)
    /\ \E s \in {SaveDay(impl, dayCache, disk, day, fault)} :
           /\ fault # "none" => (s.saves > 0 /\ FaultApplies(day, fault))
           /\ disk' = s.disk
           /\ dayCache' = s.cache
           /\ currentDay' = IF impl = "ts"
                            THEN [open |-> TRUE, shared |-> TRUE, day |-> NewDay,
                                  got |-> currentDay.got]
                            ELSE [open |-> TRUE, shared |-> FALSE, day |-> day,
                                  got |-> currentDay.got]
           /\ lastOp' = [op EXCEPT !.saved = s.ok, !.kept = FilesOf(s.disk) = FilesOf(disk)]
    /\ stack' = stk
    /\ faults' = Spend(fault # "none")
    /\ now' = now + 1
    /\ lastUndo' = NoUndo
    /\ UNCHANGED <<impl, undone>>

\* 'a', the cells typed, enter: addNewEntry ... finishEdit
AddNewEntry(typed, fault) ==
    /\ currentDay.open
    /\ Len(CurDay.entries) < MaxEntries
    /\ LET blank == NewEntry(now, 0, "", 0, 0, CurDay.screenTime)
           entry == [blank EXCEPT !.desc = typed.desc, !.cad = typed.cad, !.idr = typed.idr]
           day == [CurDay EXCEPT !.entries = Append(@, entry)]
       IN  Commit(day, PushAddEntry(stack, entry, now), fault,
                  [NoOp EXCEPT !.op = "add", !.seq = now, !.e = entry, !.pre = CurDay])

\* 'd' 'd' on row i
DeleteEntry(i, fault) ==
    /\ currentDay.open
    /\ i \in 1..Len(CurDay.entries)
    /\ LET entry == CurDay.entries[i]
       IN  Commit(RemoveEntry(CurDay, entry.id), PushDeleteEntry(stack, entry, now), fault,
                  [NoOp EXCEPT !.op = "delete", !.seq = now, !.e = entry, !.pre = CurDay])

\* enter on row i, the cells typed, enter: startInlineEdit ... finishEdit
EditEntry(i, typed, fault) ==
    /\ currentDay.open
    /\ i \in 1..Len(CurDay.entries)
    /\ LET editOriginal == Clone(CurDay.entries[i])
           entry == [CurDay.entries[i] EXCEPT !.desc = typed.desc, !.cad = typed.cad,
                                              !.idr = typed.idr]
           day == [CurDay EXCEPT !.entries[i] = entry]
       IN  /\ entry # editOriginal
           /\ Commit(day, PushEditEntry(stack, editOriginal, entry, now), fault,
                     [NoOp EXCEPT !.op = "edit", !.seq = now, !.e = entry,
                                  !.old = editOriginal, !.pre = CurDay])

\* 's', the value typed, enter
EditScreenTime(screenTime, fault) ==
    /\ currentDay.open
    /\ LET oldScreenTime == CurDay.screenTime
       IN  Commit(SetScreenTime(CurDay, screenTime),
                  PushSetScreenTime(stack, oldScreenTime, screenTime, now), fault,
                  [NoOp EXCEPT !.op = "screentime", !.seq = now, !.s = screenTime,
                               !.oldS = oldScreenTime, !.pre = CurDay])

\* 'j', the text typed, esc (Go: also ctrl+d, which empties the journal).
\* Go records nothing; TypeScript records and saves only a changed journal.
EditJournal(journal, fault) ==
    /\ currentDay.open
    /\ impl = "ts" => journal # CurDay.journal
    /\ LET oldJournal == CurDay.journal
           recorded == "SetJournal" \in ActionTypes(impl)
       IN  Commit([CurDay EXCEPT !.journal = journal],
                  IF recorded THEN PushSetJournal(stack, oldJournal, journal, now) ELSE stack,
                  fault,
                  [NoOp EXCEPT !.op = "journal", !.seq = IF recorded THEN now ELSE 0,
                               !.s = journal, !.oldS = oldJournal, !.pre = CurDay])

\* 'u': performUndo, and after a successful undo the App reloads the day
PerformUndo(fine, loadFail, fault, reloadFail) ==
    /\ currentDay.open
    /\ (IF loadFail THEN 1 ELSE 0) + (IF fault # "none" THEN 1 ELSE 0)
         + (IF reloadFail THEN 1 ELSE 0) <= faults
    /\ \E u \in {Undo(impl, stack, dayCache, disk, now, fine, loadFail, fault)} :
       \E r \in {GetDay(impl, u.cache, u.disk, now, fine, reloadFail)} :
       LET reload == u.res = "ok"
       IN  /\ loadFail => (u.loads > 0 /\ u.res = "error")
           /\ fine => ((~loadFail /\ u.loads > 0 /\ Len(disk.rows) > 1)
                        \/ (reload /\ r.ok /\ r.loads > 0 /\ Len(u.disk.rows) > 1))
           /\ fault # "none" => (u.saves > 0 /\ FaultApplies(u.day, fault))
           /\ reloadFail => (reload /\ r.loads > 0)
           /\ stack' = u.stack
           /\ disk' = u.disk
           /\ dayCache' = IF reload THEN r.cache ELSE u.cache
           /\ currentDay' = IF ~reload THEN currentDay
                            ELSE IF r.ok /\ r.cached
                            THEN [open |-> TRUE, shared |-> TRUE, day |-> NewDay, got |-> TRUE]
                            ELSE [open |-> TRUE, shared |-> FALSE, day |-> r.day,
                                  got |-> r.ok]
           /\ undone' = IF u.res = "nothing" THEN undone ELSE undone \cup {u.action.seq}
           /\ lastUndo' = [res |-> u.res, action |-> u.action, got |-> u.got, day |-> u.day,
                           size |-> Len(stack), loads |-> u.loads, saves |-> u.saves,
                           failed |-> loadFail \/ fault # "none", desc |-> u.desc]
           /\ lastOp' = IF lastUndo.res = "none" THEN lastOp ELSE NoOp
    /\ faults' = faults - ((IF loadFail THEN 1 ELSE 0) + (IF fault # "none" THEN 1 ELSE 0)
                            + (IF reloadFail THEN 1 ELSE 0))
    /\ now' = now + 1
    /\ UNCHANGED impl

\* 'q' / esc: EditorActionBack saves the day and returns to the menu
Back(fault) ==
    /\ currentDay.open
    /\ CanFault(fault)
    /\ \E s \in {SaveDay(impl, dayCache, disk, CurDay, fault)} :
       LET skip == impl = "go" /\ IsEmpty(CurDay)
       IN  /\ fault # "none" => (~skip /\ s.saves > 0 /\ FaultApplies(CurDay, fault))
           /\ disk' = IF skip THEN disk ELSE s.disk
           /\ dayCache' = IF skip THEN dayCache ELSE s.cache
    /\ currentDay' = Closed
    /\ faults' = Spend(fault # "none")
    /\ now' = now + 1
    /\ lastOp' = NoOp
    /\ lastUndo' = NoUndo
    /\ UNCHANGED <<impl, stack, undone>>

Init ==
    /\ impl \in Impls
    /\ now = 1
    /\ disk \in InitDisks
    /\ dayCache = NoCache
    /\ currentDay = Closed
    /\ stack = <<>>
    /\ faults = MaxFaults
    /\ undone = {}
    /\ lastOp = NoOp
    /\ lastUndo = NoUndo
    /\ conv = NewConverter(impl, MissingFile).conv
    /\ cacheFile = MissingFile
    /\ lastRate = NoRateOp
    /\ search = NoSearch
    /\ objects = <<>>
    /\ snapshots = <<>>
    /\ saves = <<>>
    /\ tree = NoTree
    /\ dateRange = NoRange
    /\ lastStore = NoStoreOp

\* the session goes on for MaxTime handlers
InTime == now <= MaxTime

Next ==
    \/ \E fine \in BOOLEAN, loadFail \in BOOLEAN : InTime /\ OpenDay(fine, loadFail) /\ UNCHANGED sideVars
    \/ \E typed \in Typed, fault \in SaveFaults : InTime /\ AddNewEntry(typed, fault) /\ UNCHANGED sideVars
    \/ \E i \in 1..Len(CurDay.entries), fault \in SaveFaults :
          InTime /\ DeleteEntry(i, fault) /\ UNCHANGED sideVars
    \/ \E i \in 1..Len(CurDay.entries), typed \in Typed, fault \in SaveFaults :
          InTime /\ EditEntry(i, typed, fault) /\ UNCHANGED sideVars
    \/ \E screenTime \in ScreenTimes, fault \in SaveFaults :
          InTime /\ EditScreenTime(screenTime, fault) /\ UNCHANGED sideVars
    \/ \E journal \in Journals, fault \in SaveFaults : InTime /\ EditJournal(journal, fault)
          /\ UNCHANGED sideVars
    \/ \E fine \in BOOLEAN, loadFail \in BOOLEAN, fault \in SaveFaults, reloadFail \in BOOLEAN :
          InTime /\ PerformUndo(fine, loadFail, fault, reloadFail) /\ UNCHANGED sideVars
    \/ \E fault \in SaveFaults : InTime /\ Back(fault) /\ UNCHANGED sideVars

Spec == Init /\ [][Next]_vars

(***************************************************************************)
(* The undo stack filled to its capacity: the user sets the screen time    *)
(* again and again (every such edit is recorded, in both implementations)  *)
(* and undoes now and then.                                                *)
(***************************************************************************)
InStackTime == now <= MaxStackOps

NextStack ==
    \/ InStackTime /\ OpenDay(FALSE, FALSE) /\ UNCHANGED sideVars
    \/ InStackTime /\ EditScreenTime("1h", "none") /\ UNCHANGED sideVars
    \/ /\ InStackTime
       /\ CanUndo(stack)
       /\ Cardinality(undone) < MaxStackUndos
       /\ PerformUndo(FALSE, FALSE, "none", FALSE)
       /\ UNCHANGED sideVars

\* a first session: nothing on disk yet
InitStack == Init /\ disk = NoFiles

SpecStack == InitStack /\ [][NextStack]_vars

(***************************************************************************)
(* The Day Store alone: a Day is saved over whatever an earlier save left  *)
(* on disk for the date, and then loaded.                                  *)
(***************************************************************************)
StoreScreenTimes == {"", "1h", "1h,30m"}

RECURSIVE EntryLists(_)
EntryLists(n) ==
    IF n = 0 THEN {<<>>}
    ELSE EntryLists(n - 1)
            \cup {Append(l, t) : l \in {x \in EntryLists(n - 1) : Len(x) = n - 1}, t \in Typed}

\* Days as the editor builds them: every entry carries the Day's screen time
StoreDays ==
    {[entries |-> [i \in 1..Len(l) |->
                      NewEntry(0, i, l[i].desc, l[i].cad, l[i].idr, screenTime)],
      screenTime |-> screenTime, journal |-> journal] :
        l \in EntryLists(MaxEntries), screenTime \in StoreScreenTimes, journal \in Journals}

StoreDisks == {NoFiles} \cup {SavedDisk(day) : day \in StoreDays}

\* data.csv edited by hand: one row of a saved file no longer parses
Forms == {"short", "date", "cad"}
DamagedDisks ==
    UNION {{[d EXCEPT !.rows[i].form = f] : i \in 1..Len(d.rows), f \in Forms} :
              d \in StoreDisks}

StoreSaveDay ==
    /\ lastOp.op = "none"
    /\ disk' = CsvSaveDay(disk, currentDay.day, "none").disk
    /\ lastOp' = [NoOp EXCEPT !.op = "saveDay", !.pre = currentDay.day, !.saved = TRUE,
                              !.had = Len(disk.rows)]
    /\ now' = now + 1
    /\ UNCHANGED <<impl, dayCache, currentDay, stack, faults, undone, lastUndo>>
    /\ UNCHANGED sideVars

\* the Ledger Service removes entry i of the Day and saves; fault is the
\* write that fails
StoreRemoveEntry(i, fault) ==
    /\ lastOp.op = "none"
    /\ i \in 1..Len(currentDay.day.entries)
    /\ FaultApplies(RemoveEntry(currentDay.day, currentDay.day.entries[i].id), fault)
    /\ \E r \in {ServiceRemoveEntry(impl, currentDay.day, currentDay.day.entries[i].id,
                                     disk, fault)} :
           /\ currentDay' = [currentDay EXCEPT !.day = r.day]
           /\ disk' = r.disk
           /\ lastOp' = [NoOp EXCEPT !.op = "removeEntry", !.pre = currentDay.day,
                                     !.e = currentDay.day.entries[i], !.saved = r.ok,
                                     !.fault = fault, !.had = Len(disk.rows)]
    /\ now' = now + 1
    /\ UNCHANGED <<impl, dayCache, stack, faults, undone, lastUndo>>
    /\ UNCHANGED sideVars

\* the Ledger Service puts an entry in the place of entry i: a copy of it
\* with other values, carrying the screen time it was given when it was made
StoreUpdateEntry(i, typed, screenTime) ==
    /\ lastOp.op = "none"
    /\ i \in 1..Len(currentDay.day.entries)
    /\ \E entry \in {[Clone(currentDay.day.entries[i]) EXCEPT
                         !.desc = typed.desc, !.cad = typed.cad, !.idr = typed.idr,
                         !.st = screenTime]} :
       \E r \in {ServiceUpdateEntry(impl, currentDay.day, entry, disk, "none")} :
           /\ currentDay' = [currentDay EXCEPT !.day = r.day]
           /\ disk' = r.disk
           /\ lastOp' = [NoOp EXCEPT !.op = "updateEntry", !.pre = currentDay.day,
                                     !.e = entry, !.old = currentDay.day.entries[i],
                                     !.saved = r.ok, !.had = Len(disk.rows)]
    /\ now' = now + 1
    /\ UNCHANGED <<impl, dayCache, stack, faults, undone, lastUndo>>
    /\ UNCHANGED sideVars

\* loadDay, after a saveDay ("loadDay") or on the disk as found ("loaded")
StoreLoadDay(fine, fault) ==
    /\ lastOp.op \in {"none", "saveDay"}
    /\ fine => Len(disk.rows) > 1
    /\ \E r \in {TryLoadDay(impl, disk, now, fine, fault)} :
           /\ fine => r.ok
           /\ currentDay' = IF r.ok THEN [currentDay EXCEPT !.day = r.day] ELSE currentDay
           /\ lastOp' = [lastOp EXCEPT
                            !.op = IF ~r.ok THEN "loadFailed"
                                   ELSE IF lastOp.op = "saveDay" THEN "loadDay" ELSE "loaded",
                            !.fault = fault]
    /\ now' = now + 1
    /\ UNCHANGED <<impl, disk, dayCache, stack, faults, undone, lastUndo>>
    /\ UNCHANGED sideVars

InitStore ==
    /\ impl \in Impls
    /\ now = 1
    /\ disk \in StoreDisks \cup DamagedDisks
    /\ dayCache = NoCache
    /\ currentDay \in {[open |-> TRUE, shared |-> FALSE, day |-> day, got |-> FALSE] :
                          day \in StoreDays}
    /\ stack = <<>>
    /\ faults = 0
    /\ undone = {}
    /\ lastOp = NoOp
    /\ lastUndo = NoUndo
    /\ conv = NewConverter(impl, MissingFile).conv
    /\ cacheFile = MissingFile
    /\ lastRate = NoRateOp
    /\ search = NoSearch
    /\ objects = <<>>
    /\ snapshots = <<>>
    /\ saves = <<>>
    /\ tree = NoTree
    /\ dateRange = NoRange
    /\ lastStore = NoStoreOp

NextStore ==
    \/ StoreSaveDay
    \/ \E i \in 1..MaxEntries, fault \in SaveFaults : StoreRemoveEntry(i, fault)
    \/ \E i \in 1..MaxEntries, typed \in Typed, screenTime \in StoreScreenTimes :
          StoreUpdateEntry(i, typed, screenTime)
    \/ \E fine \in BOOLEAN, fault \in LoadFaults : StoreLoadDay(fine, fault)

SpecStore == InitStore /\ [][NextStore]_vars

(***************************************************************************)
(* The Currency Converter alone: it is constructed over whatever cache     *)
(* file the directory holds, refreshed, and asked to convert.              *)
(***************************************************************************)
Rates == {0, 11800, 16000}
Amounts == {0, 5, 50000}

\* a cache file a refresh wrote earlier, `{}`, and the files that do not load
CacheFiles ==
    {MissingFile,
     [form |-> "unreadable", rate |-> Undefined, lastUpdated |-> Never],
     [form |-> "garbage", rate |-> Undefined, lastUpdated |-> Never],
     [form |-> "json", rate |-> Undefined, lastUpdated |-> Never]}
        \cup {[form |-> "json", rate |-> Number(r), lastUpdated |-> 1] : r \in Rates}

Responses ==
    {[kind |-> k, rate |-> 0] : k \in ResponseKinds \ {"rate"}}
        \cup {[kind |-> "rate", rate |-> r] : r \in Rates}

editorVars ==
    <<impl, disk, dayCache, currentDay, stack, faults, undone, lastOp, lastUndo, search,
      objects, snapshots, saves, treeVars>>

Construct ==
    /\ ~conv.built
    /\ conv' = NewConverter(impl, cacheFile).conv
    /\ lastRate' = [NoRateOp EXCEPT !.op = "new", !.pre = conv, !.at = now,
                                    !.raised = NewConverter(impl, cacheFile).raised,
                                    !.found = cacheFile.form]
    /\ now' = now + 1
    /\ UNCHANGED <<cacheFile, editorVars>>

Refresh(resp, writeOk) ==
    /\ conv.built
    /\ \E r \in {RefreshRate(impl, conv, cacheFile, resp, now, writeOk)} :
           /\ conv' = r.conv
           /\ cacheFile' = r.file
           /\ lastRate' = [NoRateOp EXCEPT !.op = "refreshRate", !.pre = conv, !.at = now,
                                           !.resp = resp, !.err = r.err,
                                           !.found = lastRate.found,
                                           !.fresh = lastRate.fresh \/ resp.kind = "rate"]
    /\ now' = now + 1
    /\ UNCHANGED editorVars

ConvertCADToIDR(cad) ==
    /\ conv.built
    /\ lastRate' = [NoRateOp EXCEPT !.op = "cadToIDR", !.pre = conv, !.at = now,
                                    !.x = cad, !.res = CADToIDR(conv, cad),
                                    !.found = lastRate.found, !.fresh = lastRate.fresh]
    /\ now' = now + 1
    /\ UNCHANGED <<conv, cacheFile, editorVars>>

ConvertIDRToCAD(idr) ==
    /\ conv.built
    /\ lastRate' = [NoRateOp EXCEPT !.op = "idrToCAD", !.pre = conv, !.at = now,
                                    !.x = idr, !.res = IDRToCAD(conv, idr),
                                    !.found = lastRate.found, !.fresh = lastRate.fresh]
    /\ now' = now + 1
    /\ UNCHANGED <<conv, cacheFile, editorVars>>

InitRate ==
    /\ impl \in Impls
    /\ now = 2
    /\ disk = NoFiles
    /\ dayCache = NoCache
    /\ currentDay = Closed
    /\ stack = <<>>
    /\ faults = 0
    /\ undone = {}
    /\ lastOp = NoOp
    /\ lastUndo = NoUndo
    /\ conv = NoConverter
    /\ cacheFile \in CacheFiles
    /\ lastRate = NoRateOp
    /\ search = NoSearch
    /\ objects = <<>>
    /\ snapshots = <<>>
    /\ saves = <<>>
    /\ tree = NoTree
    /\ dateRange = NoRange
    /\ lastStore = NoStoreOp

InRateTime == now <= 1 + MaxRateTime

NextRate ==
    \/ InRateTime /\ Construct
    \/ \E resp \in Responses, writeOk \in BOOLEAN : InRateTime /\ Refresh(resp, writeOk)
    \/ \E cad \in Amounts : InRateTime /\ ConvertCADToIDR(cad)
    \/ \E idr \in Amounts : InRateTime /\ ConvertIDRToCAD(idr)

SpecRate == InitRate /\ [][NextRate]_vars

(***************************************************************************)
(* Search in the day editor: the user types a query and the editor shows   *)
(* the entries of the Day that match, with their totals.                   *)
(***************************************************************************)
SearchDates == {[y |-> 2024, m |-> 1, d |-> 5], [y |-> 2023, m |-> 12, d |-> 15]}

Queries ==
    {<<>>, <<"c", "o", "f">>, <<"C", "O", "F">>, <<"E">>, <<"4", ".", "5">>, <<"5", "0", "0">>,
     <<"j", "a", "n">>, <<"D", "e", "c">>, <<"1", "/", "5">>, <<"1", "5", "/">>, <<"z">>}

Search(query) ==
    /\ currentDay.open
    /\ search' = [search EXCEPT
                    !.query = query, !.ran = TRUE,
                    !.entries = Filter(impl, CurDay, search.date, query),
                    !.totalCAD = FilteredTotalCAD(impl, CurDay, search.date, query),
                    !.totalIDR = FilteredTotalIDR(impl, CurDay, search.date, query)]
    /\ UNCHANGED <<impl, now, disk, dayCache, currentDay, stack, faults, undone, lastOp,
                   lastUndo, rateVars, treeVars, objects, snapshots, saves>>

InitSearch ==
    /\ impl \in Impls
    /\ now = 1
    /\ disk = NoFiles
    /\ dayCache = NoCache
    /\ currentDay \in {[open |-> TRUE, shared |-> FALSE, day |-> day, got |-> TRUE] :
                          day \in StoreDays}
    /\ stack = <<>>
    /\ faults = 0
    /\ undone = {}
    /\ lastOp = NoOp
    /\ lastUndo = NoUndo
    /\ conv = NewConverter(impl, MissingFile).conv
    /\ cacheFile = MissingFile
    /\ lastRate = NoRateOp
    /\ search \in {[NoSearch EXCEPT !.date = date] : date \in SearchDates}
    /\ objects = <<>>
    /\ snapshots = <<>>
    /\ saves = <<>>
    /\ tree = NoTree
    /\ dateRange = NoRange
    /\ lastStore = NoStoreOp

NextSearch == \E query \in Queries : Search(query)

SpecSearch == InitSearch /\ [][NextSearch]_vars

(***************************************************************************)
(* Recording by reference.  A caller of the undo manager holds Entry       *)
(* objects, hands them to RecordAddEntry / RecordDeleteEntry /             *)
(* RecordEditEntry, goes on changing them in place (as saveCurrentCell     *)
(* and SetScreenTime do), and calls Undo.  An entry record with a field    *)
(* obj is the object of that identity: whoever holds a record with the     *)
(* same obj sees a change made in place.  A record without obj is an       *)
(* object that only its holder has.                                        *)
(***************************************************************************)
Ref(o) ==
    [id |-> objects[o].id, desc |-> objects[o].desc, cad |-> objects[o].cad,
     idr |-> objects[o].idr, st |-> objects[o].st, obj |-> o]

\* the fields the editor assigns in place
InPlace(x, o, v) ==
    IF "obj" \in DOMAIN x /\ x.obj = o
    THEN [x EXCEPT !.desc = v.desc, !.cad = v.cad, !.idr = v.idr, !.st = v.st]
    ELSE x

Record(type, o1, o2) ==
    /\ stack' = (CASE type = "AddEntry" -> PushAddEntry(stack, Ref(o2), now)
                   [] type = "DeleteEntry" -> PushDeleteEntry(stack, Ref(o2), now)
                   [] OTHER -> PushEditEntry(stack, Ref(o1), Ref(o2), now))
    /\ snapshots' = Append(snapshots, [entry |-> objects[o2],
                                     oldEntry |-> IF type = "EditEntry" THEN objects[o1]
                                                  ELSE NoEntry])
    /\ lastOp' = [NoOp EXCEPT !.op = type, !.seq = now]
    /\ lastUndo' = NoUndo
    /\ now' = now + 1
    /\ UNCHANGED <<impl, disk, dayCache, currentDay, faults, undone, objects, rateVars, treeVars, search,
                   saves>>

MutateInPlace(o, v) ==
    /\ Len(stack) > 0
    /\ objects[o] # [objects[o] EXCEPT !.desc = v.desc, !.cad = v.cad, !.idr = v.idr,
                                       !.st = v.st]
    /\ objects' = [objects EXCEPT ![o] = [@ EXCEPT !.desc = v.desc, !.cad = v.cad,
                                                   !.idr = v.idr, !.st = v.st]]
    /\ stack' = [i \in 1..Len(stack) |->
                    [stack[i] EXCEPT !.entry = InPlace(@, o, v),
                                     !.oldEntry = InPlace(@, o, v)]]
    /\ lastOp' = [NoOp EXCEPT !.op = "mutate", !.seq = now]
    /\ lastUndo' = NoUndo
    /\ now' = now + 1
    /\ UNCHANGED <<impl, disk, dayCache, currentDay, faults, undone, snapshots, rateVars, treeVars,
                   search, saves>>

UndoRecorded ==
    /\ Len(stack) > 0
    /\ \E u \in {Undo(impl, stack, dayCache, disk, now, FALSE, FALSE, "none")} :
           /\ stack' = u.stack
           /\ disk' = u.disk
           /\ dayCache' = u.cache
           /\ undone' = undone \cup {u.action.seq}
           /\ lastUndo' = [res |-> u.res, action |-> u.action, got |-> u.got, day |-> u.day,
                           size |-> Len(stack), loads |-> u.loads, saves |-> u.saves,
                           failed |-> FALSE, desc |-> u.desc]
    /\ lastOp' = [NoOp EXCEPT !.op = "undo", !.seq = now,
                              !.e = snapshots[Len(snapshots)].entry,
                              !.old = snapshots[Len(snapshots)].oldEntry]
    /\ snapshots' = SubSeq(snapshots, 1, Len(snapshots) - 1)
    /\ now' = now + 1
    /\ UNCHANGED <<impl, currentDay, faults, objects, rateVars, treeVars, search, saves>>

InitClone ==
    /\ impl \in Impls
    /\ now = 1
    /\ disk = NoFiles
    /\ dayCache = NoCache
    /\ currentDay = Closed
    /\ stack = <<>>
    /\ faults = 0
    /\ undone = {}
    /\ lastOp = NoOp
    /\ lastUndo = NoUndo
    /\ conv = NewConverter(impl, MissingFile).conv
    /\ cacheFile = MissingFile
    /\ lastRate = NoRateOp
    /\ search = NoSearch
    /\ objects = <<NewEntry(0, 1, "Coffee", 4500, 531000, "1h"),
                   NewEntry(0, 2, "Groceries", 4237, 500004, "1h")>>
    /\ snapshots = <<>>
    /\ saves = <<>>
    /\ tree = NoTree
    /\ dateRange = NoRange
    /\ lastStore = NoStoreOp

InCloneTime == now <= MaxCloneOps

NextClone ==
    \/ \E type \in {"AddEntry", "DeleteEntry"}, o \in 1..Len(objects) :
          InCloneTime /\ Record(type, o, o)
    \/ \E o1, o2 \in 1..Len(objects) : InCloneTime /\ o1 # o2 /\ Record("EditEntry", o1, o2)
    \/ \E o \in 1..Len(objects), typed \in Typed, st \in ScreenTimes :
          InCloneTime /\ MutateInPlace(o, [desc |-> typed.desc, cad |-> typed.cad,
                                           idr |-> typed.idr, st |-> st])
    \/ InCloneTime /\ UndoRecorded

SpecClone == InitClone /\ [][NextClone]_vars

(***************************************************************************)
(* Saves in flight.  The Go App saves inside Update, so a save is over     *)
(* when the handler returns.  The TypeScript editor calls onSave(day)      *)
(* without awaiting it: saveDay runs up to its first await and the rest    *)
(* runs when the awaited operation completes, while the editor goes on     *)
(* handling keys.  A save in flight is at "ensure" (awaiting               *)
(* ensureDayDir), at "csv" (awaiting the Bun.write of data.csv, rows being *)
(* what it writes) or at "journal" (awaiting the write of entry.md).       *)
(***************************************************************************)
RowsOf(day) == [i \in 1..Len(day.entries) |-> Row(day.entries[i], day)]

\* what saveDay does after the write of data.csv, or instead of it
ThenJournal(day) ==
    IF day.journal # "" THEN <<[pc |-> "journal", rows |-> <<>>, journal |-> day.journal]>>
    ELSE <<>>

\* the user sets the screen time and the editor has the Day saved
EditAndSave(screenTime) ==
    /\ lastOp.seq < MaxSaves
    /\ \E day \in {SetScreenTime(CurDay, screenTime)} :
           /\ currentDay' = [currentDay EXCEPT !.day = day]
           /\ lastOp' = [NoOp EXCEPT !.op = "save", !.seq = lastOp.seq + 1, !.pre = day]
           /\ IF impl = "go"
              THEN /\ disk' = SaveDay(impl, dayCache, disk, day, "none").disk
                   /\ UNCHANGED <<dayCache, saves>>
              ELSE /\ dayCache' = [present |-> TRUE, day |-> day]
                   /\ saves' = Append(saves, [pc |-> "ensure", rows |-> <<>>, journal |-> ""])
                   /\ UNCHANGED disk
    /\ UNCHANGED <<impl, now, stack, faults, undone, lastUndo, rateVars, treeVars, search, objects,
                   snapshots>>

\* ensureDayDir is done: the save builds the lines from the Day as it is now
\* and starts the write of data.csv
SaveEnsured(k) ==
    /\ saves[k].pc = "ensure"
    /\ disk' = [disk EXCEPT !.dir = TRUE]
    /\ saves' = IF Len(CurDay.entries) > 0
                THEN [saves EXCEPT ![k] = [pc |-> "csv", rows |-> RowsOf(CurDay),
                                           journal |-> ""]]
                ELSE SubSeq(saves, 1, k - 1) \o ThenJournal(CurDay)
                        \o SubSeq(saves, k + 1, Len(saves))
    /\ UNCHANGED <<impl, now, dayCache, currentDay, stack, faults, undone, lastOp, lastUndo,
                   rateVars, treeVars, search, objects, snapshots>>

\* the write of data.csv is done
CsvWritten(k) ==
    /\ saves[k].pc = "csv"
    /\ disk' = [disk EXCEPT !.hasCsv = TRUE, !.rows = saves[k].rows]
    /\ saves' = SubSeq(saves, 1, k - 1) \o ThenJournal(CurDay)
                    \o SubSeq(saves, k + 1, Len(saves))
    /\ UNCHANGED <<impl, now, dayCache, currentDay, stack, faults, undone, lastOp, lastUndo,
                   rateVars, treeVars, search, objects, snapshots>>

\* the write of entry.md is done, and with it the save
JournalWritten(k) ==
    /\ saves[k].pc = "journal"
    /\ disk' = [disk EXCEPT !.hasJournal = TRUE, !.journal = saves[k].journal]
    /\ saves' = SubSeq(saves, 1, k - 1) \o SubSeq(saves, k + 1, Len(saves))
    /\ UNCHANGED <<impl, now, dayCache, currentDay, stack, faults, undone, lastOp, lastUndo,
                   rateVars, treeVars, search, objects, snapshots>>

InitAsync ==
    /\ impl \in Impls
    /\ now = 1
    /\ disk = NoFiles
    /\ dayCache = NoCache
    /\ currentDay \in {[open |-> TRUE, shared |-> FALSE, day |-> day, got |-> TRUE] :
                          day \in {d \in StoreDays : Len(d.entries) > 0}}
    /\ stack = <<>>
    /\ faults = 0
    /\ undone = {}
    /\ lastOp = NoOp
    /\ lastUndo = NoUndo
    /\ conv = NewConverter(impl, MissingFile).conv
    /\ cacheFile = MissingFile
    /\ lastRate = NoRateOp
    /\ search = NoSearch
    /\ objects = <<>>
    /\ snapshots = <<>>
    /\ saves = <<>>
    /\ tree = NoTree
    /\ dateRange = NoRange
    /\ lastStore = NoStoreOp

NextAsync ==
    \/ \E screenTime \in ScreenTimes : EditAndSave(screenTime)
    \/ \E k \in 1..Len(saves) : SaveEnsured(k)
    \/ \E k \in 1..Len(saves) : CsvWritten(k)
    \/ \E k \in 1..Len(saves) : JournalWritten(k)

SpecAsync == InitAsync /\ [][NextAsync]_vars

(***************************************************************************)
(* The Day Store over the data directory: Days are saved and deleted on    *)
(* several dates, the dates are listed, a range of dates is loaded into a  *)
(* DateRange, and a caller inserts Days into the DateRange it holds.       *)
(***************************************************************************)
\* the Days that are saved: with and without an entry, with and without a
\* journal
TreeDays ==
    {[entries |-> entries, screenTime |-> "1h", journal |-> journal] :
        entries \in {<<>>, <<NewEntry(0, 1, "Coffee", 4500, 531000, "1h")>>},
        journal \in Journals}

\* data.csv of the second date edited by hand: its second row has lost
\* fields, or its only row has lost its date
HandEdited ==
    {[NoTree EXCEPT ![GetDayDir(DateAt(2))] =
          [SavedDisk(TwoCoffees) EXCEPT !.rows[2].form = "short"]],
     [NoTree EXCEPT ![GetDayDir(DateAt(2))] =
          [SavedDisk(TwoCoffees) EXCEPT !.rows = <<[@[1] EXCEPT !.form = "date"]>>]]}

InTreeTime == now <= MaxTreeOps

TreeSaveDay(date, day) ==
    /\ InTreeTime
    /\ tree' = TreeSave(tree, date, day)
    /\ lastStore' = [NoStoreOp EXCEPT !.op = "saveDay", !.date = date, !.day = day]
    /\ now' = now + 1
    /\ UNCHANGED <<impl, disk, dayCache, currentDay, stack, faults, undone, lastOp, lastUndo,
                   rateVars, search, objects, snapshots, saves, dateRange>>

TreeDeleteDay(date) ==
    /\ InTreeTime
    /\ tree' = DeleteDay(tree, date)
    /\ lastStore' = [NoStoreOp EXCEPT !.op = "deleteDay", !.date = date]
    /\ now' = now + 1
    /\ UNCHANGED <<impl, disk, dayCache, currentDay, stack, faults, undone, lastOp, lastUndo,
                   rateVars, search, objects, snapshots, saves, dateRange>>

TreeDeleteJournal(date) ==
    /\ InTreeTime
    /\ tree' = DeleteJournal(tree, date)
    /\ lastStore' = [NoStoreOp EXCEPT !.op = "deleteJournal", !.date = date]
    /\ now' = now + 1
    /\ UNCHANGED <<impl, disk, dayCache, currentDay, stack, faults, undone, lastOp, lastUndo,
                   rateVars, search, objects, snapshots, saves, dateRange>>

\* the range view asks for the Days of start..end; on an error it keeps the
\* DateRange it had
TreeLoadDateRange(start, end) ==
    /\ InTreeTime
    /\ \E r \in {LoadDateRange(impl, tree, start, end, now)} :
           /\ dateRange' = IF r.ok THEN r.range ELSE dateRange
           /\ lastStore' = [NoStoreOp EXCEPT !.op = "loadDateRange", !.date = start,
                                             !.end = end, !.ok = r.ok]
    /\ now' = now + 1
    /\ UNCHANGED <<impl, disk, dayCache, currentDay, stack, faults, undone, lastOp, lastUndo,
                   rateVars, search, objects, snapshots, saves, tree>>

\* a caller inserts a Day of some date into the DateRange
TreeAddDay(date, day) ==
    /\ InTreeTime
    /\ Len(dateRange.days) < MaxRangeDays
    /\ dateRange' = AddDay(dateRange, [date |-> date, day |-> day])
    /\ lastStore' = [NoStoreOp EXCEPT !.op = "addDay", !.date = date, !.day = day]
    /\ now' = now + 1
    /\ UNCHANGED <<impl, disk, dayCache, currentDay, stack, faults, undone, lastOp, lastUndo,
                   rateVars, search, objects, snapshots, saves, tree>>

TreeListAvailableDates ==
    /\ InTreeTime
    /\ lastStore' = [NoStoreOp EXCEPT !.op = "listAvailableDates",
                                      !.listed = ListAvailableDates(impl, tree)]
    /\ now' = now + 1
    /\ UNCHANGED <<impl, disk, dayCache, currentDay, stack, faults, undone, lastOp, lastUndo,
                   rateVars, search, objects, snapshots, saves, tree, dateRange>>

InitTree ==
    /\ impl \in Impls
    /\ now = 1
    /\ disk = NoFiles
    /\ dayCache = NoCache
    /\ currentDay = Closed
    /\ stack = <<>>
    /\ faults = 0
    /\ undone = {}
    /\ lastOp = NoOp
    /\ lastUndo = NoUndo
    /\ conv = NewConverter(impl, MissingFile).conv
    /\ cacheFile = MissingFile
    /\ lastRate = NoRateOp
    /\ search = NoSearch
    /\ objects = <<>>
    /\ snapshots = <<>>
    /\ saves = <<>>
    /\ tree \in {NoTree} \cup HandEdited
    /\ dateRange = NoRange
    /\ lastStore = NoStoreOp

NextTree ==
    \/ \E date \in TreeDates, day \in TreeDays : TreeSaveDay(date, day)
    \/ \E date \in TreeDates : TreeDeleteDay(date)
    \/ \E date \in TreeDates : TreeDeleteJournal(date)
    \/ \E start, end \in TreeDates : TreeLoadDateRange(start, end)
    \/ \E date \in TreeDates, day \in {d \in TreeDays : d.journal # "" /\ d.entries = <<>>} :
          TreeAddDay(date, day)
    \/ TreeListAvailableDates

SpecTree == InitTree /\ [][NextTree]_vars

(***************************************************************************)
(* Properties                                                              *)
(***************************************************************************)
\* the Day the Ledger Service hands out for the date in the current state
ServiceDay(fine) == GetDay(impl, dayCache, disk, now, fine, FALSE).day

Content(entries) ==
    [i \in 1..Len(entries) |-> [desc |-> entries[i].desc, cad |-> entries[i].cad,
                                idr |-> entries[i].idr]]

\* the handler before the preceding one made a recorded mutation of this kind,
\* saved it, and the preceding handler undid exactly that action with success
Undid(op) ==
    /\ lastOp.op = op
    /\ lastOp.saved
    /\ lastOp.seq # 0
    /\ lastUndo.res = "ok"
    /\ lastUndo.action.seq = lastOp.seq

\* C1: the undo stack never holds more than 100 actions; recording an action
\* appends it on top, and on a stack that already holds 100 it discards
\* exactly one action, the oldest.
C1_StackBounded ==
    /\ [](Len(stack) <= MaxSize)
    /\ [][lastOp'.seq = now =>
            /\ Len(stack') > 0
            /\ stack'[Len(stack')].seq = now
            /\ stack' = Append(IF Len(stack) = MaxSize THEN Tail(stack) ELSE stack,
                               stack'[Len(stack')])]_vars

C1_Witness ==
    /\ Len(stack) = MaxSize
    /\ lastOp.seq = stack[MaxSize].seq
    /\ stack[1].seq > 2

\* C2: undo() pops the action on top of the stack, which is the most recently
\* recorded one still on it, and an action popped by undo() is never on the
\* stack again.
C2_UndoIsLifo ==
    /\ [](\A i \in 1..Len(stack) : stack[i].seq \notin undone)
    /\ [][lastUndo'.res \in {"ok", "error"} =>
            /\ Len(stack) > 0
            /\ lastUndo'.action = stack[Len(stack)]
            /\ \A i \in 1..Len(stack) : stack[i].seq <= lastUndo'.action.seq
            /\ stack' = SubSeq(stack, 1, Len(stack) - 1)
            /\ lastUndo'.action.seq \in undone']_vars

C2_Witness ==
    /\ lastUndo.res = "ok"
    /\ lastUndo.size = 2
    /\ Len(stack) = 1
    /\ Cardinality(undone) = 1

\* C3: add E, save, record, undo with success: the Day the Ledger Service
\* returns has no entry with E's id, and its entries are those from before
\* the add.
C3_AddUndone ==
    Undid("add") =>
        \A fine \in BOOLEAN :
            /\ \A i \in 1..Len(ServiceDay(fine).entries) :
                    ServiceDay(fine).entries[i].id # lastOp.e.id
            /\ Content(ServiceDay(fine).entries) = Content(lastOp.pre.entries)

\* C4: delete E, save, record, undo with success: the Day the Ledger Service
\* returns contains an entry with E's description, cad and idr.
C4_DeleteUndone ==
    Undid("delete") =>
        \A fine \in BOOLEAN :
            \E i \in 1..Len(ServiceDay(fine).entries) :
                Content(ServiceDay(fine).entries)[i] = Content(<<lastOp.e>>)[1]

\* C5: edit A to B, save, record, undo with success: the Day the Ledger
\* Service returns has an entry with A's id that holds A's description, cad
\* and idr.
C5_EditUndone ==
    Undid("edit") =>
        \A fine \in BOOLEAN :
            \E i \in 1..Len(ServiceDay(fine).entries) :
                /\ ServiceDay(fine).entries[i].id = lastOp.old.id
                /\ Content(ServiceDay(fine).entries)[i] = Content(<<lastOp.old>>)[1]

\* C6: after undo() of a SetScreenTime action succeeds, the Day it acted on
\* has the old screen time, and so has every entry of that Day.
C6_ScreenTimeUndone ==
    (lastUndo.res = "ok" /\ lastUndo.action.type = "SetScreenTime") =>
        /\ lastUndo.day.screenTime = lastUndo.action.oldScreenTime
        /\ \A i \in 1..Len(lastUndo.day.entries) :
                lastUndo.day.entries[i].st = lastUndo.action.oldScreenTime

C6_Witness ==
    /\ lastUndo.res = "ok"
    /\ lastUndo.action.type = "SetScreenTime"
    /\ lastUndo.action.oldScreenTime # lastUndo.action.screenTime
    /\ Len(lastUndo.day.entries) > 0
    /\ lastUndo.got.screenTime = lastUndo.action.screenTime

\* C7: a journal change made in the editor is recorded as a SetJournal
\* action, and the undo() that follows it with success restores the old
\* journal in the Day it acts on and leaves that Day's entries alone.
C7_JournalUndone ==
    (lastOp.op = "journal" /\ lastOp.s # lastOp.oldS /\ lastUndo.res = "ok") =>
        /\ lastUndo.action.type = "SetJournal"
        /\ lastUndo.action.seq = lastOp.seq
        /\ lastUndo.day.journal = lastOp.oldS
        /\ lastUndo.day.entries = lastUndo.got.entries

C9_EmptyUndoIsNoOp ==
    /\ [](CanUndo(stack) <=> Len(stack) >= 1)
    /\ [][(Len(stack) = 0 /\ lastUndo'.res # "none") =>
            /\ lastUndo'.res = "nothing"
            /\ lastUndo'.loads = 0
            /\ lastUndo'.saves = 0
            /\ stack' = <<>>
            /\ UNCHANGED <<disk, dayCache, currentDay, faults, undone>>]_vars

C9_Witness ==
    /\ lastUndo.res = "nothing"
    /\ Len(stack) = 0
    /\ currentDay.open

\* the entries of a Day as a tabular file holds them
Stored(entries) ==
    [i \in 1..Len(entries) |->
        [desc |-> entries[i].desc, cad |-> FormatCAD(entries[i].cad),
         idr |-> FormatIDR(entries[i].idr), st |-> entries[i].st]]

\* C10: a Day with any number of entries and a non-empty journal, saved over
\* whatever the disk holds for the date and loaded again, comes back with the
\* same entries in the same order (description, cad to 2 decimals, idr to an
\* integer, screen time) and the same journal.
C10_SaveLoadRoundTrip ==
    (lastOp.op = "loadDay" /\ lastOp.pre.journal # "") =>
        /\ [i \in 1..Len(currentDay.day.entries) |->
                [desc |-> currentDay.day.entries[i].desc, cad |-> currentDay.day.entries[i].cad,
                 idr |-> currentDay.day.entries[i].idr, st |-> currentDay.day.entries[i].st]]
             = Stored(lastOp.pre.entries)
        /\ currentDay.day.journal = lastOp.pre.journal

\* C11: saving a Day with no entries and an empty journal where neither
\* data.csv nor entry.md exists creates neither of them.
C11_EmptyDayNotPersisted ==
    [][(lastOp'.op = "saveDay" /\ IsEmpty(currentDay.day)
            /\ ~disk.hasCsv /\ ~disk.hasJournal) =>
        (~disk'.hasCsv /\ ~disk'.hasJournal)]_vars

C11_Witness ==
    /\ lastOp.op = "saveDay"
    /\ IsEmpty(lastOp.pre)
    /\ disk.dir
    /\ ~disk.hasCsv
    /\ ~disk.hasJournal

\* the handler before this state was a loadDay, which ended well or not
Loaded == lastOp.op \in {"loaded", "loadDay"}
LoadRan == Loaded \/ lastOp.op = "loadFailed"

\* the rows of data.csv that have 5 fields and a date
GoodRows(rows) == SelectSeq(rows, LAMBDA r : r.form \notin {"short", "date"})

\* what loadDay is to make of the rows: description and idr as written, and
\* cad as written or 0 where it is no number
Parsed(rows) ==
    [i \in 1..Len(GoodRows(rows)) |->
        [desc |-> GoodRows(rows)[i].desc,
         cad |-> IF GoodRows(rows)[i].form = "cad" THEN 0 ELSE GoodRows(rows)[i].cad,
         idr |-> GoodRows(rows)[i].idr]]

\* C15: loadDay does not fail for an absent file: with neither file it
\* returns an empty Day, with only one it returns that one's data; a read
\* error on a file that exists makes loadDay fail.
C15_AbsentFilesAreNoData ==
    LoadRan =>
        /\ (~disk.hasCsv /\ ~disk.hasJournal) => (Loaded /\ currentDay.day = NewDay)
        /\ (~disk.hasCsv /\ lastOp.fault # "journal") => Loaded
        /\ (~disk.hasJournal /\ lastOp.fault = "journal") =>
                (Loaded \/ \E i \in 1..Len(disk.rows) : disk.rows[i].form # "ok")
        /\ (Loaded /\ ~disk.hasCsv) =>
                (currentDay.day.entries = <<>>
                    /\ currentDay.day.journal = IF disk.hasJournal THEN disk.journal ELSE "")
        /\ (Loaded /\ ~disk.hasJournal) =>
                (currentDay.day.journal = ""
                    /\ Content(currentDay.day.entries)
                         = IF disk.hasCsv THEN Parsed(disk.rows) ELSE <<>>)
        /\ ((disk.hasCsv /\ lastOp.fault = "csv")
                \/ (disk.hasJournal /\ lastOp.fault = "journal")) => ~Loaded

C15_Witness ==
    /\ lastOp.op = "loaded"
    /\ lastOp.fault = "csv"
    /\ ~disk.hasCsv
    /\ disk.hasJournal
    /\ currentDay.day.journal = disk.journal

\* C16: a data.csv with one malformed row (fewer than 5 fields, or a date
\* that does not parse) among valid rows loads without failing: that row is
\* dropped and the other rows are loaded; a row whose cad is no number is kept
\* with cad 0.
C16_MalformedRowDropped ==
    (LoadRan /\ lastOp.fault = "none" /\ disk.hasCsv) =>
        /\ Loaded
        /\ Content(currentDay.day.entries) = Parsed(disk.rows)

\* C12: after the screen time of a Day is set to s, the Day's screen time is
\* s and every entry in the Day, those added earlier included, has screen
\* time s.
C12_ScreenTimeOnEveryEntry ==
    (lastOp.op = "screentime" /\ lastUndo.res = "none") =>
        /\ CurDay.screenTime = lastOp.s
        /\ Len(CurDay.entries) = Len(lastOp.pre.entries)
        /\ \A i \in 1..Len(CurDay.entries) : CurDay.entries[i].st = lastOp.s

C12_Witness ==
    /\ lastOp.op = "screentime"
    /\ lastUndo.res = "none"
    /\ Len(lastOp.pre.entries) > 0
    /\ lastOp.pre.entries[1].st \notin {"", lastOp.s}
    /\ CurDay.entries[1].st = lastOp.s

\* C13: while the editor holds a Day that getDay returned, another getDay
\* for the date returns that same Day, with whatever has been changed in it,
\* and reads nothing from disk.
C13_GetDayReturnsCached ==
    (currentDay.open /\ currentDay.got) =>
        \A fine \in BOOLEAN :
            /\ GetDay(impl, dayCache, disk, now, fine, FALSE).loads = 0
            /\ GetDay(impl, dayCache, disk, now, fine, FALSE).day = CurDay

\* C14: saving a Day that has become empty succeeds, leaves data.csv and
\* entry.md as they are, and makes the next getDay return the empty Day, not
\* what an older file holds.
C14_EmptySaveUpdatesCache ==
    (lastOp.op \in {"add", "delete", "edit", "screentime", "journal"}
        /\ lastUndo.res = "none" /\ currentDay.got /\ IsEmpty(CurDay)) =>
        /\ lastOp.saved
        /\ lastOp.kept
        /\ \A fine \in BOOLEAN : IsEmpty(ServiceDay(fine))

\* C17: after a refreshRate whose rate lookup succeeded, the in-memory rate
\* is the fetched rate, lastUpdated is the time of the call, the converter
\* is not offline and has no last error, and the cache file holds the new
\* cache.
C17_RefreshSuccess ==
    (lastRate.op = "refreshRate" /\ lastRate.resp.kind = "rate") =>
        /\ conv.cache = [rate |-> Number(lastRate.resp.rate), lastUpdated |-> lastRate.at]
        /\ ~conv.offline
        /\ conv.lastErr = "none"
        /\ cacheFile = [form |-> "json", rate |-> Number(lastRate.resp.rate),
                        lastUpdated |-> lastRate.at]

\* C18: a refreshRate whose rate lookup failed (no answer, a status other
\* than 200, a body that does not decode, no IDR rate in the answer) leaves
\* the converter offline with the error as its last error and with the rate
\* and lastUpdated it had; and no step of a constructed converter other than
\* a refreshRate whose lookup succeeded changes the rate or lastUpdated.
C18_RefreshFailureKeepsCache ==
    [][conv.built =>
        /\ (lastRate'.op = "refreshRate" /\ lastRate'.resp.kind # "rate") =>
              (conv'.offline /\ conv'.lastErr # "none" /\ conv'.cache = conv.cache)
        /\ (conv'.cache # conv.cache) =>
              (lastRate'.op = "refreshRate" /\ lastRate'.resp.kind = "rate")]_vars

\* C19: constructing the converter never raises, and over a cache file that
\* is missing, unreadable or not parseable the new converter has the default
\* rate 11800, was never updated, and is not offline.
C19_ConstructNeverRaises ==
    (lastRate.op = "new") =>
        /\ ~lastRate.raised
        /\ conv.built
        /\ cacheFile.form \in {"missing", "unreadable", "garbage"} =>
              /\ conv.cache.rate = Number(11800)
              /\ conv.cache.lastUpdated = Never
              /\ ~conv.offline
              /\ conv.lastErr = "none"

C19_Witness ==
    /\ lastRate.op = "new"
    /\ cacheFile.form = "unreadable"
    /\ conv.cache.rate.val = 11800
    /\ ~conv.offline

\* C20: with a cached rate of 0, idrToCAD(x) is exactly 0 for every x; with
\* a rate r other than 0, idrToCAD(x) is x / r; and cadToIDR(x) is x * r.
C20_Conversions ==
    (lastRate.op \in {"cadToIDR", "idrToCAD"} /\ conv.cache.rate.def) =>
        /\ lastRate.res.def
        /\ lastRate.res.den # 0
        /\ (lastRate.op = "idrToCAD" /\ conv.cache.rate.val = 0) => lastRate.res.num = 0
        /\ (lastRate.op = "idrToCAD" /\ conv.cache.rate.val # 0) =>
              lastRate.res.num * conv.cache.rate.val = lastRate.x * lastRate.res.den
        /\ (lastRate.op = "cadToIDR") =>
              lastRate.res.num = lastRate.x * conv.cache.rate.val * lastRate.res.den

C20_Witness ==
    /\ lastRate.op = "idrToCAD"
    /\ conv.cache.rate = Number(0)
    /\ lastRate.x # 0
    /\ lastRate.res = Ratio(0, 1)

\* C21: a converter constructed with no cache file reports the never-updated
\* case in its status message (the text contains "never") and converts 1 CAD
\* to 11800 IDR, from construction until a rate lookup succeeds, failed
\* refreshes in between included.
C21_NeverUntilRefreshed ==
    (conv.built /\ lastRate.found = "missing" /\ ~lastRate.fresh) =>
        /\ "never" \in GetStatusMessage(conv).words
        /\ CADToIDR(conv, 1) = Ratio(11800, 1)

\* C22: the entries of the Day in the editor have pairwise different ids,
\* rows loaded from one file within one clock tick and with descriptions that
\* share their first 8 characters included.
C22_IdsUniqueInDay ==
    currentDay.open =>
        \A i, j \in 1..Len(CurDay.entries) :
            CurDay.entries[i].id = CurDay.entries[j].id => i = j

\* an entry matches when one of its texts (description, the date in its four
\* display formats, the CAD amount with two decimals, the rounded IDR amount)
\* contains the query, letter case aside
Matching(entries, date, query) ==
    LET texts(e) == {Text(e.desc), CadText(e.cad), IdrText(e.idr)}
                        \cup {DateTexts(date)[k] : k \in 1..4}
        hit(e) == \E t \in texts(e) : Contains(ToLower(t), ToLower(query))
    IN  SelectSeq(entries, hit)

\* C23: the search with an empty query shows all entries of the Day, in
\* order; with a query q it shows exactly the entries one of whose texts
\* contains q case-insensitively, in their order in the Day, and the totals
\* shown are the sums of cad and idr over the entries shown.
C23_FilterEntries ==
    search.ran =>
        /\ search.query = <<>> => search.entries = CurDay.entries
        /\ search.query # <<>> =>
              search.entries = Matching(CurDay.entries, search.date, search.query)
        /\ search.totalCAD = SumCAD(search.entries)
        /\ search.totalIDR = SumIDR(search.entries)

C23_Witness ==
    /\ search.ran
    /\ search.query = <<"C", "O", "F">>
    /\ Len(CurDay.entries) = 2
    /\ Len(search.entries) = 1
    /\ search.entries[1] = CurDay.entries[2]
    /\ search.totalCAD = 4500

\* the values of an entry, whoever holds it
Fields(e) == [id |-> e.id, desc |-> e.desc, cad |-> e.cad, idr |-> e.idr, st |-> e.st]

\* C24: the entries in the recorded actions keep the values they had when
\* recorded, whatever is changed in place afterwards in the entry objects
\* that were handed to RecordAddEntry, RecordDeleteEntry or RecordEditEntry;
\* so the action an undo pops carries those values, and the entry an undone
\* delete puts back has the recorded description and amounts.
C24_RecordedEntriesAreCopies ==
    /\ Len(stack) = Len(snapshots)
    /\ \A i \in 1..Len(stack) :
          /\ Fields(stack[i].entry) = snapshots[i].entry
          /\ Fields(stack[i].oldEntry) = snapshots[i].oldEntry
    /\ (lastOp.op = "undo") =>
          /\ Fields(lastUndo.action.entry) = lastOp.e
          /\ Fields(lastUndo.action.oldEntry) = lastOp.old
          /\ (lastUndo.action.type = "DeleteEntry" /\ lastUndo.res = "ok") =>
                (Len(lastUndo.day.entries) > 0
                   /\ Content(<<lastUndo.day.entries[Len(lastUndo.day.entries)]>>)
                        = Content(<<lastOp.e>>))

C24_Witness ==
    /\ lastOp.op = "undo"
    /\ lastUndo.res = "ok"
    /\ lastUndo.action.type = "DeleteEntry"
    /\ \E o \in 1..Len(objects) :
          /\ objects[o].id = lastOp.e.id
          /\ objects[o].desc # lastOp.e.desc
    /\ lastUndo.day.entries[Len(lastUndo.day.entries)].desc = lastOp.e.desc

\* C25: saves of the Day do not overlap: a save started later has not begun
\* to write while an earlier one is still in flight, and when every save has
\* finished the files hold what the save started last was given.
C25_SavesDoNotInterleave ==
    /\ \A k \in 2..Len(saves) : saves[k].pc = "ensure"
    /\ (lastOp.op = "save" /\ saves = <<>>) =>
          /\ disk.hasCsv
          /\ disk.rows = [i \in 1..Len(lastOp.pre.entries) |->
                            Row(lastOp.pre.entries[i], lastOp.pre)]

\* C26: after every insertion of a Day into a DateRange (by a caller or by
\* loadDateRange) the days of the range are in ascending order of date: no
\* day stands before a day of an earlier date.
C26_RangeSorted ==
    \A i, j \in 1..Len(dateRange.days) :
        i < j => ~Before(dateRange.days[j].date, dateRange.days[i].date)

\* a Day was inserted whose date is before that of a Day already in the range
C26_Witness ==
    /\ lastStore.op = "addDay"
    /\ Len(dateRange.days) >= 2
    /\ Before(lastStore.date, dateRange.days[Len(dateRange.days)].date)

\* the dates of start..end whose data.csv exists and loads to a Day that is
\* not empty, the load dropping a malformed row
RangeDates ==
    {d \in TreeDates :
        /\ ~Before(d, lastStore.date)
        /\ ~Before(lastStore.end, d)
        /\ FileExists(tree, d)
        /\ ~IsEmpty(LoadDay(impl, tree[GetDayDir(d)], now - 1, FALSE))}

\* C27: loadDateRange(start, end) returns the DateRange of start and end
\* whose days are exactly the Days of the dates in [start, end] that have a
\* data.csv and load to a non-empty Day, each once and in order of date; no
\* empty Day, no Day outside the bounds, and no Day at all when start is
\* after end.
C27_LoadDateRange ==
    lastStore.op = "loadDateRange" =>
        /\ lastStore.ok
        /\ dateRange.start = lastStore.date
        /\ dateRange.end = lastStore.end
        /\ dateRange.days =
              [i \in 1..Cardinality(RangeDates) |->
                  [date |-> Ascending(RangeDates)[i],
                   day |-> LoadDay(impl, tree[GetDayDir(Ascending(RangeDates)[i])],
                                   now - 1, FALSE)]]

\* C28: after any sequence of saveDay, deleteDay and deleteJournal,
\* listAvailableDates returns exactly the dates whose data.csv or entry.md
\* exists at that moment, each once; the date of a day directory that holds
\* neither file is not in the list.
C28_ListAvailableDates ==
    lastStore.op = "listAvailableDates" =>
        /\ {lastStore.listed[i] : i \in 1..Len(lastStore.listed)}
              = {d \in TreeDates : tree[GetDayDir(d)].hasCsv \/ tree[GetDayDir(d)].hasJournal}
        /\ \A i, j \in 1..Len(lastStore.listed) :
              lastStore.listed[i] = lastStore.listed[j] => i = j

\* the dates were listed while one day directory held a file and another,
\* left behind by a delete or made by the save of an empty Day, held none
C28_Witness ==
    /\ lastStore.op = "listAvailableDates"
    /\ Len(lastStore.listed) > 0
    /\ \E d \in TreeDates :
          /\ tree[GetDayDir(d)].dir
          /\ ~tree[GetDayDir(d)].hasCsv
          /\ ~tree[GetDayDir(d)].hasJournal

\* C29: a Day Store saveDay of a Day without entries leaves data.csv of
\* every date as it is, and a saveDay of a Day with an empty journal leaves
\* entry.md of every date as it is; a data.csv or entry.md that exists stops
\* existing only in a deleteDay or a deleteJournal of its date.
C29_EmptySaveKeepsFiles ==
    [][\A p \in DOMAIN tree :
          /\ (lastStore'.op = "saveDay" /\ lastStore'.day.entries = <<>>) =>
                (tree'[p].hasCsv = tree[p].hasCsv /\ tree'[p].rows = tree[p].rows)
          /\ (lastStore'.op = "saveDay" /\ lastStore'.day.journal = "") =>
                (tree'[p].hasJournal = tree[p].hasJournal
                    /\ tree'[p].journal = tree[p].journal)
          /\ (tree[p].hasCsv /\ ~tree'[p].hasCsv) =>
                (lastStore'.op = "deleteDay" /\ GetDayDir(lastStore'.date) = p)
          /\ (tree[p].hasJournal /\ ~tree'[p].hasJournal) =>
                (lastStore'.op = "deleteJournal" /\ GetDayDir(lastStore'.date) = p)]_vars

\* an empty Day was saved on a date that has a data.csv and an entry.md
C29_Witness ==
    /\ lastStore.op = "saveDay"
    /\ lastStore.day.entries = <<>>
    /\ lastStore.day.journal = ""
    /\ tree[GetDayDir(lastStore.date)].hasCsv
    /\ tree[GetDayDir(lastStore.date)].hasJournal

\* C30: an undo of an AddEntry action whose entry is not in the Day (no
\* entry of the Day the undo got has the recorded id), with no I/O failure:
\* it ends without error, the Day's entries are as they were, and the
\* description returned is the usual "Undo: Removed '...'" of the recorded
\* entry's description.
C30_UndoOfAbsentAdd ==
    (/\ lastUndo.action.type = "AddEntry"
     /\ ~lastUndo.failed
     /\ \A i \in 1..Len(lastUndo.got.entries) :
            lastUndo.got.entries[i].id # lastUndo.action.entry.id) =>
        /\ lastUndo.res = "ok"
        /\ lastUndo.day.entries = lastUndo.got.entries
        /\ lastUndo.desc = <<"Undo: Removed", Text(lastUndo.action.entry.desc)>>

\* such an undo ran on a Day that has entries
C30_Witness ==
    /\ lastUndo.action.type = "AddEntry"
    /\ ~lastUndo.failed
    /\ lastUndo.res = "ok"
    /\ Len(lastUndo.got.entries) > 0
    /\ \A i \in 1..Len(lastUndo.got.entries) :
          lastUndo.got.entries[i].id # lastUndo.action.entry.id

\* C31: a Day Store saveDay of a Day with N >= 1 entries leaves in data.csv,
\* whatever rows it held before, exactly N rows after the header: row i is
\* entry i (description, cad to 2 decimals, idr to an integer) with the
\* Day's screen time; a load that follows returns exactly those N entries in
\* that order.
C31_SaveRewritesFile ==
    (lastOp.op \in {"saveDay", "loadDay"} /\ Len(lastOp.pre.entries) >= 1) =>
        /\ disk.hasCsv
        /\ disk.rows =
              [i \in 1..Len(lastOp.pre.entries) |->
                  [desc |-> lastOp.pre.entries[i].desc,
                   cad |-> FormatCAD(lastOp.pre.entries[i].cad),
                   idr |-> FormatIDR(lastOp.pre.entries[i].idr),
                   st |-> lastOp.pre.screenTime, form |-> "ok"]]
        /\ lastOp.op = "loadDay" =>
              Content(currentDay.day.entries)
                  = [i \in 1..Len(lastOp.pre.entries) |->
                        [desc |-> lastOp.pre.entries[i].desc,
                         cad |-> FormatCAD(lastOp.pre.entries[i].cad),
                         idr |-> FormatIDR(lastOp.pre.entries[i].idr)]]

\* a Day with one entry was saved over a data.csv of two rows and loaded
C31_Witness ==
    /\ lastOp.op = "loadDay"
    /\ Len(lastOp.pre.entries) = 1
    /\ lastOp.had = 2
    /\ Len(currentDay.day.entries) = 1

\* C32: a failed write leaves the Day in memory as it was: when the save
\* inside the Ledger Service's removeEntry fails, the call fails and the
\* Day's entries are the entries from before the call, in the same order;
\* and a save by itself leaves the Day it is given unchanged.
C32_FailedSaveKeepsDay ==
    /\ (lastOp.op = "removeEntry" /\ lastOp.fault # "none") =>
            (~lastOp.saved /\ currentDay.day.entries = lastOp.pre.entries)
    /\ lastOp.op = "saveDay" => currentDay.day = lastOp.pre

\* C33: in the day editor every committed mutation of the Day (an entry
\* added, deleted or edited, the screen time set, the journal changed or
\* deleted) records an undo action of the matching kind: right after the
\* commit the newest action on the stack is the one recorded for it.
C33_CommitRecorded ==
    (lastOp.op \in {"add", "delete", "edit", "screentime", "journal"}
        /\ lastUndo.res = "none") =>
        /\ Peek(stack).type =
              (CASE lastOp.op = "add" -> "AddEntry"
                 [] lastOp.op = "delete" -> "DeleteEntry"
                 [] lastOp.op = "edit" -> "EditEntry"
                 [] lastOp.op = "screentime" -> "SetScreenTime"
                 [] OTHER -> "SetJournal")
        /\ Peek(stack).seq = lastOp.seq
        /\ lastOp.seq # 0

\* description, amounts and screen time of the entries, in list order
FieldsOf(entries) ==
    [i \in 1..Len(entries) |-> [desc |-> entries[i].desc, cad |-> entries[i].cad,
                                idr |-> entries[i].idr, st |-> entries[i].st]]

\* the Day undo() has modified is, entry by entry and in the same order, the
\* Day as it was before the mutation
Restored ==
    /\ FieldsOf(lastUndo.day.entries) = FieldsOf(lastOp.pre.entries)
    /\ lastUndo.day.screenTime = lastOp.pre.screenTime
    /\ lastUndo.day.journal = lastOp.pre.journal

\* C34: undo is an exact inverse: for each action kind, when the mutation
\* was applied, saved and recorded and undo() follows immediately and
\* succeeds, the Day's ordered entries (field values and positions), its
\* screen time and its journal are what they were before the mutation.
C34_UndoExactInverse ==
    \A op \in {"add", "delete", "edit", "screentime", "journal"} : Undid(op) => Restored

\* the Day the Day Store reads from the files, past any cache
Reread == LoadDay(impl, disk, now, TRUE)

\* C35: after a successful undo() the Day read again from the Day Store,
\* past the cache, has the entries and the journal of the Day undo()
\* modified, also when undo() left the entry list or the journal empty.
C35_UndoPersisted ==
    lastUndo.res = "ok" =>
        /\ Content(Reread.entries) = Content(Stored(lastUndo.day.entries))
        /\ Reread.journal = lastUndo.day.journal

\* the ids of the entries
IdsOf(entries) == {entries[i].id : i \in 1..Len(entries)}

\* C36: entry ids are stable between record time and undo time: when
\* undo() takes an AddEntry or EditEntry action whose entry is still in the
\* Day the editor shows, the Day undo() obtains through getDay has an entry
\* with that id.
C36_IdsStable ==
    [][(/\ lastUndo'.action.type \in {"AddEntry", "EditEntry"}
        /\ lastUndo'.action.seq \notin undone
        /\ lastUndo'.res = "ok"
        /\ Peek(stack) = lastUndo'.action
        /\ Peek(stack).entry.id \in IdsOf(CurDay.entries))
          => lastUndo'.action.entry.id \in IdsOf(lastUndo'.got.entries)]_vars

\* every entry of the Day carries the Day's screen time
Uniform(day) == \A i \in 1..Len(day.entries) : day.entries[i].st = day.screenTime

\* C37: in every reachable state every entry of a Day has the Day's screen
\* time, whatever sequence of adding, removing and updating entries, setting
\* the screen time, loading and undoing has led there.
C37_ScreenTimeUniform == Uniform(CurDay)

\* C38: the cached exchange rate is strictly positive in every reachable
\* state of the converter: after construction over any cache file content
\* and after any sequence of refreshes with any answers of the rate service.
C38_RatePositive ==
    conv.built => (conv.cache.rate.def /\ conv.cache.rate.val > 0)
====
